---- MODULE Spec2Model ----
(***************************************************************************)
(* The aggregation and retention engine of the CO2 monitor                 *)
(* (src/aggregator.py, src/database.py) as a state machine.                *)
(*                                                                         *)
(* Conventions of the model                                                *)
(*  - a naive Python datetime is the number of seconds since               *)
(*    1970-01-01 00:00:00; a Python date is the number of days since       *)
(*    1970-01-01; a timedelta is a number of seconds.                      *)
(*  - the text 'YYYY-MM-DD HH:MM:SS' that strftime produces and SQLite     *)
(*    stores is the tuple <<date, HH, MM, SS>>; SQLite compares such texts *)
(*    character by character, which on fixed-width fields is the           *)
(*    lexicographic order of the tuple (TextLT).                           *)
(*  - a nullable SQL value / Python Optional is <<>> (NULL, None) or <<v>>.*)
(*  - a REAL that the code rounds to one decimal is held in tenths         *)
(*    (5500 is 550.0); SQL AVG is the exact fraction <<sum, count>>.       *)
(*  - temperatures are whole degrees.                                      *)
(*  - the rows of the aggregate tables are held without their              *)
(*    AUTOINCREMENT id, a surrogate that no code reads to decide anything. *)
(***************************************************************************)
EXTENDS Integers, Sequences, FiniteSets, TLC

VARIABLES
    measurements,     \* table measurements
    minute_stats,     \* table minute_stats
    hourly_stats,     \* table hourly_stats
    daily_stats,      \* table daily_stats
    sqlite_sequence,  \* the AUTOINCREMENT counter of measurements
    file_size,        \* size of the database file, in row slots
    now,              \* the wall clock (UTC), seconds since the epoch
    tz,               \* offset of the host's local time from UTC, seconds
    last,             \* the call that was made last, with its result
    daemon,           \* the process aggregator.py --daemon: where it stands
    server,           \* the aggregation thread of api_server.py: where it stands
    notifier,         \* the NotificationManager: its field and where a call stands
    tracker           \* the CO2Tracker: the state of its read loop

vars == <<measurements, minute_stats, hourly_stats, daily_stats,
          sqlite_sequence, file_size, now, tz, last, daemon, server,
          notifier, tracker>>

(***************************************************************************)
(* Program constants                                                       *)
(***************************************************************************)
DAYTIME_START == 6
DAYTIME_END == 22
WORKDAY_START == 8
WORKDAY_END == 18
MINUTE_INTERVALS == <<5, 10, 15>>
DEFAULT_DAYS_TO_KEEP == 30
DEFAULT_MAX_SIZE_GB == 5
DEFAULT_INTERVAL == 5

NULL == <<>>

(***************************************************************************)
(* Bounds of the model                                                     *)
(***************************************************************************)
MaxReadings == 3      \* readings inserted in one behaviour
MaxDaemonReadings == 2    \* readings inserted in one behaviour of the daemon
MaxTickMinutes == 70      \* minutes that the minute-by-minute clock runs

(***************************************************************************)
(* datetime, date, timedelta                                               *)
(***************************************************************************)
timedelta(days, hours, minutes) == days * 86400 + hours * 3600 + minutes * 60

date_of(t) == t \div 86400
hour_of(t) == (t % 86400) \div 3600
minute_of(t) == (t % 3600) \div 60
second_of(t) == t % 60

\* date.isoweekday(): Monday is 1
isoweekday(d) == ((d + 3) % 7) + 1

\* date.weekday(): Monday is 0; 1970-01-01 was a Thursday
weekday(d) == (d + 3) % 7

\* datetime.combine(stat_date, datetime.min.time())
combine(d) == d * 86400

\* datetime.strftime('%Y-%m-%d %H:%M:%S'), and SQLite's CURRENT_TIMESTAMP
strftime(t) == <<date_of(t), hour_of(t), minute_of(t), second_of(t)>>

\* date.strftime('%Y-%m-%d')
strftime_date(d) == <<d>>

\* datetime.fromisoformat of a stored timestamp text
fromisoformat(s) == s[1] * 86400 + s[2] * 3600 + s[3] * 60 + s[4]

\* SQLite's comparison of two timestamp texts: a < b
TextLT(a, b) ==
    \E i \in 1..4 : a[i] < b[i] /\ \A j \in 1..(i - 1) : a[j] = b[j]

\* SQLite's strftime('%H', timestamp) cast to INTEGER
sql_hour(s) == s[2]

\* a replacement that clears the seconds and keeps the minute
replace_second(t, interval) == t - second_of(t)

\* datetime.replace(minute=(minute // interval) * interval, second=0)
replace_minute(t, interval) ==
    t - second_of(t) - (minute_of(t) - (minute_of(t) \div interval) * interval) * 60

\* datetime.replace(minute=0, second=0, microsecond=0)
replace_hour(t) == t - second_of(t) - minute_of(t) * 60

(***************************************************************************)
(* SQL aggregate functions.  A column of a set of rows is the set of       *)
(* <<id, value>> pairs, the value nullable.                                *)
(***************************************************************************)
co2_ppm_col(rows) == {<<r.id, <<r.co2_ppm>>>> : r \in rows}
temperature_col(rows) == {<<r.id, r.temperature_celsius>> : r \in rows}

NonNull(col) == {c \in col : c[2] # NULL}

RECURSIVE SumCol(_)
SumCol(col) ==
    IF col = {} THEN 0
    ELSE LET c == CHOOSE x \in col : TRUE
         IN  c[2][1] + SumCol(col \ {c})

SQL_MIN(col) ==
    LET vals == {c[2][1] : c \in NonNull(col)}
    IN  IF vals = {} THEN NULL
        ELSE <<CHOOSE v \in vals : \A w \in vals : v <= w>>

SQL_MAX(col) ==
    LET vals == {c[2][1] : c \in NonNull(col)}
    IN  IF vals = {} THEN NULL
        ELSE <<CHOOSE v \in vals : \A w \in vals : v >= w>>

\* AVG: NULL over no non-null value, else the exact fraction sum / count
SQL_AVG(col) ==
    LET nn == NonNull(col)
    IN  IF nn = {} THEN NULL ELSE <<SumCol(nn), Cardinality(nn)>>

\* a truncation to one decimal in place of the rounding
round1_truncated(avg) == (10 * avg[1]) \div avg[2]

\* Python's round(x, 1) of the fraction avg[1] / avg[2], in tenths.  round()
\* rounds the binary double correctly; a tie between two tenths is a value
\* k/4, exact in binary, whenever the count is below 20, and goes to the
\* even tenth.
round1(avg) ==
    LET n == 10 * avg[1]
        q == n \div avg[2]
        r == n % avg[2]
    IN  IF 2 * r < avg[2] THEN q
        ELSE IF 2 * r > avg[2] THEN q + 1
        ELSE IF q % 2 = 0 THEN q ELSE q + 1

\* Python truth value of an Optional[float]: None and 0.0 are false
truthy(avg) == avg # NULL /\ avg[1] # 0

\* round(x, 1) if x else None
round1_if(avg) == IF truthy(avg) THEN <<round1(avg)>> ELSE NULL

(***************************************************************************)
(* The database as one value                                               *)
(***************************************************************************)
DB == [measurements |-> measurements, minute_stats |-> minute_stats,
       hourly_stats |-> hourly_stats, daily_stats |-> daily_stats,
       sqlite_sequence |-> sqlite_sequence, file_size |-> file_size]

Live(db) == Cardinality(db.measurements) + Cardinality(db.minute_stats)
            + Cardinality(db.hourly_stats) + Cardinality(db.daily_stats)

\* conn.commit() after an insert: the file grows when the rows no longer fit
commit(db) ==
    [db EXCEPT !.file_size = IF Live(db) + 1 > @ THEN Live(db) + 1 ELSE @]

\* VACUUM rebuilds the file without its free pages
vacuum(db) == [db EXCEPT !.file_size = Live(db) + 1]

\* the file size in MB: one row slot is taken to occupy 1024 MB, and the
\* schema occupies one slot
get_database_size_mb(db) == db.file_size * 1024

(***************************************************************************)
(* CO2Database: raw measurements                                           *)
(***************************************************************************)
\* CO2Database.insert; utcnow is what CURRENT_TIMESTAMP reads
insert(db, utcnow, co2_ppm, temperature_celsius) ==
    LET id == db.sqlite_sequence.measurements + 1
        row == [id |-> id, timestamp |-> strftime(utcnow),
                co2_ppm |-> co2_ppm,
                temperature_celsius |-> temperature_celsius]
    IN  [ret |-> id,
         db |-> commit([db EXCEPT !.measurements = @ \cup {row},
                                  !.sqlite_sequence.measurements = id])]

\* a deletion that prunes the hourly and daily rows along with the readings
delete_older_than_everywhere(db, days, localnow) ==
    LET cutoff == strftime(localnow - timedelta(days, 0, 0))
        gone == {m \in db.measurements : TextLT(m.timestamp, cutoff)}
    IN  [ret |-> Cardinality(gone),
         db |-> [db EXCEPT
                   !.measurements = @ \ gone,
                   !.hourly_stats = {b \in @ : ~TextLT(b.hour_start, cutoff)},
                   !.daily_stats = {b \in @ : b.date[1] >= cutoff[1]}]]

\* CO2Database.delete_older_than; localnow is what datetime.now() reads
delete_older_than(db, days, localnow) ==
    LET cutoff == strftime(localnow - timedelta(days, 0, 0))
        gone == {m \in db.measurements : TextLT(m.timestamp, cutoff)}
    IN  [ret |-> Cardinality(gone),
         db |-> [db EXCEPT !.measurements = @ \ gone]]

\* a loop that returns what the first deletion returned
RECURSIVE cleanup_loop_uncounted(_, _, _, _, _, _)
cleanup_loop_uncounted(db, total_deleted, current_size, max_size_mb, days_to_delete, localnow) ==
    IF current_size > max_size_mb /\ days_to_delete > 1
    THEN LET d == delete_older_than(db, days_to_delete, localnow)
             v == vacuum(d.db)
             r == cleanup_loop_uncounted(v, total_deleted,
                      get_database_size_mb(v), max_size_mb,
                      days_to_delete - 1, localnow)
         IN  [r EXCEPT !.passes = <<days_to_delete>> \o @]
    ELSE [ret |-> total_deleted, db |-> db, passes |-> <<>>]

\* a loop that goes on below the floor, down to a threshold of -1 days
RECURSIVE cleanup_loop_below_floor(_, _, _, _, _, _)
cleanup_loop_below_floor(db, total_deleted, current_size, max_size_mb, days_to_delete, localnow) ==
    IF current_size > max_size_mb /\ days_to_delete > -2
    THEN LET d == delete_older_than(db, days_to_delete, localnow)
             v == vacuum(d.db)
             r == cleanup_loop_below_floor(v, total_deleted + d.ret,
                      get_database_size_mb(v), max_size_mb,
                      days_to_delete - 1, localnow)
         IN  [r EXCEPT !.passes = <<days_to_delete>> \o @]
    ELSE [ret |-> total_deleted, db |-> db, passes |-> <<>>]

\* the while loop of cleanup_if_size_exceeded; passes lists the thresholds,
\* in days, of the calls of delete_older_than in the order they are made
RECURSIVE cleanup_loop(_, _, _, _, _, _)
cleanup_loop(db, total_deleted, current_size, max_size_mb, days_to_delete, localnow) ==
    IF current_size > max_size_mb /\ days_to_delete > 1
    THEN LET d == delete_older_than(db, days_to_delete, localnow)
             v == vacuum(d.db)
             r == cleanup_loop(v, total_deleted + d.ret,
                      get_database_size_mb(v), max_size_mb,
                      days_to_delete - 1, localnow)
         IN  [r EXCEPT !.passes = <<days_to_delete>> \o @]
    ELSE [ret |-> total_deleted, db |-> db, passes |-> <<>>]

\* a pass that goes on to the progressive deletions whatever the size
cleanup_if_size_exceeded_always(db, max_size_gb, days_to_keep, localnow) ==
    LET d == delete_older_than(db, days_to_keep, localnow)
    IN  IF days_to_keep - 1 > 1
        THEN LET e == delete_older_than(d.db, 2, localnow)
             IN  [ret |-> d.ret + e.ret, db |-> vacuum(e.db),
                  passes |-> <<days_to_keep, 2>>]
        ELSE [ret |-> d.ret, db |-> d.db, passes |-> <<days_to_keep>>]

\* CO2Database.cleanup_if_size_exceeded
cleanup_if_size_exceeded(db, max_size_gb, days_to_keep, localnow) ==
    LET max_size_mb == max_size_gb * 1024
        d == delete_older_than(db, days_to_keep, localnow)
        current_size == get_database_size_mb(d.db)
        r == cleanup_loop(d.db, d.ret, current_size, max_size_mb,
                          days_to_keep - 1, localnow)
    IN  IF current_size <= max_size_mb
        THEN [ret |-> d.ret, db |-> d.db, passes |-> <<days_to_keep>>]
        ELSE [r EXCEPT !.passes = <<days_to_keep>> \o @]

(***************************************************************************)
(* CO2Database: aggregate tables                                           *)
(***************************************************************************)
\* a plain INSERT, as into a table without the UNIQUE constraint
insert_only(table, key, row) == table \cup {row}

\* a merge in place of the replacement: the counts of the old row and of
\* the new one are added
insert_or_merge(table, key, row) ==
    LET old == {r \in table : \A k \in key : r[k] = row[k]}
        n == IF "co2_count" \in DOMAIN row THEN "co2_count"
             ELSE "measurement_count"
    IN  (table \ old) \cup {IF old = {} THEN row
                            ELSE [row EXCEPT
                                    ![n] = @ + (CHOOSE r \in old : TRUE)[n]]}

\* INSERT OR REPLACE into a table with a UNIQUE constraint on the columns
\* key: the rows in conflict with the new row are deleted, the row is added
insert_or_replace(table, key, row) ==
    {r \in table : \E k \in key : r[k] # row[k]} \cup {row}

\* CO2Database.insert_minute_stats
insert_minute_stats(db, interval_start, interval_minutes, co2_min, co2_max, co2_avg, co2_count, temp_min, temp_max, temp_avg) ==
    LET row == [interval_start |-> strftime(interval_start),
                interval_minutes |-> interval_minutes,
                co2_min |-> co2_min, co2_max |-> co2_max,
                co2_avg |-> co2_avg, co2_count |-> co2_count,
                temp_min |-> temp_min, temp_max |-> temp_max,
                temp_avg |-> temp_avg]
    IN  commit([db EXCEPT
            !.minute_stats = insert_or_replace(@,
                                 {"interval_start", "interval_minutes"}, row)])

\* CO2Database.insert_hourly_stats
insert_hourly_stats(db, hour_start, co2_min, co2_max, co2_avg, co2_count, temp_min, temp_max, temp_avg) ==
    LET hour_of_day == hour_of(hour_start)
        day_of_week == weekday(date_of(hour_start))
        is_daytime == DAYTIME_START <= hour_of_day /\ hour_of_day < DAYTIME_END
        is_workday == day_of_week < 5 /\ WORKDAY_START <= hour_of_day
                      /\ hour_of_day < WORKDAY_END
        row == [hour_start |-> strftime(hour_start),
                co2_min |-> co2_min, co2_max |-> co2_max,
                co2_avg |-> co2_avg, co2_count |-> co2_count,
                temp_min |-> temp_min, temp_max |-> temp_max,
                temp_avg |-> temp_avg,
                is_workday |-> is_workday, is_daytime |-> is_daytime,
                hour_of_day |-> hour_of_day, day_of_week |-> day_of_week]
    IN  commit([db EXCEPT
            !.hourly_stats = insert_or_replace(@, {"hour_start"}, row)])

\* CO2Database.insert_daily_stats
insert_daily_stats(db, stat_date, co2_min, co2_max, co2_avg, co2_day_avg, co2_night_avg, temp_min, temp_max, temp_avg, measurement_count) ==
    LET is_weekend == weekday(stat_date) >= 5
        row == [date |-> strftime_date(stat_date),
                co2_min |-> co2_min, co2_max |-> co2_max,
                co2_avg |-> co2_avg, co2_day_avg |-> co2_day_avg,
                co2_night_avg |-> co2_night_avg,
                temp_min |-> temp_min, temp_max |-> temp_max,
                temp_avg |-> temp_avg,
                measurement_count |-> measurement_count,
                is_weekend |-> is_weekend]
    IN  commit([db EXCEPT
            !.daily_stats = insert_or_replace(@, {"date"}, row)])

(***************************************************************************)
(* Aggregator                                                              *)
(***************************************************************************)
\* a window closed at both ends: timestamp >= ? AND timestamp <= ?
where_between(rows, start_str, end_str) ==
    {m \in rows : ~TextLT(m.timestamp, start_str) /\ ~TextLT(end_str, m.timestamp)}

\* FROM measurements WHERE timestamp >= ? AND timestamp < ?
where_window(rows, start_str, end_str) ==
    {m \in rows : ~TextLT(m.timestamp, start_str) /\ TextLT(m.timestamp, end_str)}

\* SELECT MIN(co2_ppm), MAX(co2_ppm), AVG(co2_ppm), COUNT(*),
\*        MIN(temperature_celsius), MAX(...), AVG(...): the fetched row
select_stats(db, start_str, end_str) ==
    LET rows == where_window(db.measurements, start_str, end_str)
    IN  <<SQL_MIN(co2_ppm_col(rows)), SQL_MAX(co2_ppm_col(rows)),
          SQL_AVG(co2_ppm_col(rows)), Cardinality(rows),
          SQL_MIN(temperature_col(rows)), SQL_MAX(temperature_col(rows)),
          SQL_AVG(temperature_col(rows))>>

\* ... AND CAST(strftime('%H', timestamp) AS INTEGER) >= ? AND ... < ?
where_day(rows, lo, hi) ==
    {m \in rows : sql_hour(m.timestamp) >= lo /\ sql_hour(m.timestamp) < hi}

\* a night that starts after the hour lo: ... > ? OR ... < ?
where_night_after(rows, lo, hi) ==
    {m \in rows : sql_hour(m.timestamp) > lo \/ sql_hour(m.timestamp) < hi}

\* ... AND (CAST(strftime('%H', timestamp) AS INTEGER) >= ? OR ... < ?)
where_night(rows, lo, hi) ==
    {m \in rows : sql_hour(m.timestamp) >= lo \/ sql_hour(m.timestamp) < hi}

\* Aggregator.aggregate_minute_interval
aggregate_minute_interval(db, interval_start, interval_minutes) ==
    LET interval_end == interval_start + timedelta(0, 0, interval_minutes)
        row == select_stats(db, strftime(interval_start), strftime(interval_end))
    IN  IF row[4] = 0
        THEN [ret |-> FALSE, db |-> db]
        ELSE [ret |-> TRUE,
              db |-> insert_minute_stats(db, interval_start, interval_minutes,
                         row[1], row[2], round1(row[3]), row[4],
                         row[5], row[6], round1_if(row[7]))]

\* an aggregate_hour that deletes the readings it has aggregated
aggregate_hour_consuming(db, hour_start) ==
    LET hour_end == hour_start + timedelta(0, 1, 0)
        row == select_stats(db, strftime(hour_start), strftime(hour_end))
        rest == db.measurements
                    \ where_window(db.measurements, strftime(hour_start),
                                   strftime(hour_end))
    IN  IF row[4] = 0
        THEN [ret |-> FALSE, db |-> db]
        ELSE [ret |-> TRUE,
              db |-> insert_hourly_stats([db EXCEPT !.measurements = rest],
                         hour_start,
                         row[1], row[2], round1(row[3]), row[4],
                         row[5], row[6], round1_if(row[7]))]

\* Aggregator.aggregate_hour
aggregate_hour(db, hour_start) ==
    LET hour_end == hour_start + timedelta(0, 1, 0)
        row == select_stats(db, strftime(hour_start), strftime(hour_end))
    IN  IF row[4] = 0
        THEN [ret |-> FALSE, db |-> db]
        ELSE [ret |-> TRUE,
              db |-> insert_hourly_stats(db, hour_start,
                         row[1], row[2], round1(row[3]), row[4],
                         row[5], row[6], round1_if(row[7]))]

\* an aggregate_day that removes the date's row when the date has no reading
aggregate_day_clearing(db, stat_date) ==
    LET day_start == combine(stat_date)
        day_end == day_start + timedelta(1, 0, 0)
        start_str == strftime(day_start)
        end_str == strftime(day_end)
        row == select_stats(db, start_str, end_str)
        in_window == where_window(db.measurements, start_str, end_str)
        day_avg_row == SQL_AVG(co2_ppm_col(
                           where_day(in_window, DAYTIME_START, DAYTIME_END)))
        night_avg_row == SQL_AVG(co2_ppm_col(
                           where_night(in_window, DAYTIME_END, DAYTIME_START)))
    IN  IF row[4] = 0
        THEN [ret |-> FALSE,
              db |-> [db EXCEPT !.daily_stats =
                         {b \in @ : b.date # strftime_date(stat_date)}]]
        ELSE [ret |-> TRUE,
              db |-> insert_daily_stats(db, stat_date,
                         row[1], row[2], round1(row[3]),
                         round1_if(day_avg_row), round1_if(night_avg_row),
                         row[5], row[6], round1_if(row[7]), row[4])]

\* Aggregator.aggregate_day, with the measurements table as each of its
\* three SELECTs finds it: overall for the overall stats, day for the day
\* average, night for the night average.  The SELECTs run on one connection
\* outside a transaction (sqlite3 opens one before INSERT, UPDATE and DELETE
\* only), so each reads what is committed when it runs.
aggregate_day_reads(db, stat_date, overall, day, night) ==
    LET day_start == combine(stat_date)
        day_end == day_start + timedelta(1, 0, 0)
        start_str == strftime(day_start)
        end_str == strftime(day_end)
        row == select_stats([db EXCEPT !.measurements = overall],
                            start_str, end_str)
        day_avg_row == SQL_AVG(co2_ppm_col(
                           where_day(where_window(day, start_str, end_str),
                                     DAYTIME_START, DAYTIME_END)))
        night_avg_row == SQL_AVG(co2_ppm_col(
                           where_night(where_window(night, start_str, end_str),
                                       DAYTIME_END, DAYTIME_START)))
    IN  IF row[4] = 0
        THEN [ret |-> FALSE, db |-> db]
        ELSE [ret |-> TRUE,
              db |-> insert_daily_stats(db, stat_date,
                         row[1], row[2], round1(row[3]),
                         round1_if(day_avg_row), round1_if(night_avg_row),
                         row[5], row[6], round1_if(row[7]), row[4])]

\* Aggregator.aggregate_day as one step: nothing is committed between its
\* SELECTs
aggregate_day(db, stat_date) ==
    aggregate_day_reads(db, stat_date, db.measurements, db.measurements,
                        db.measurements)

\* SELECT MIN(timestamp), MAX(timestamp) FROM measurements
min_timestamp(rows) ==
    IF rows = {} THEN NULL
    ELSE <<(CHOOSE m \in rows :
               \A o \in rows : ~TextLT(o.timestamp, m.timestamp)).timestamp>>
max_timestamp(rows) ==
    IF rows = {} THEN NULL
    ELSE <<(CHOOSE m \in rows :
               \A o \in rows : ~TextLT(m.timestamp, o.timestamp)).timestamp>>

\* the windows of a loop that stops one step early: while current < end
VisitedBeforeEnd(rows, first, end, step) ==
    {w \in {first + ((fromisoformat(m.timestamp) - first) \div step) * step :
                m \in rows} :
        first <= w /\ w < end}

\* The loops of backfill_all have the shape
\*     current = first; while current <= end: aggregate(current); current += step
\* A call on a window that holds no reading returns False and changes nothing
\* (the first branch of the aggregate_* operators), so a loop is the calls, in
\* ascending order, on the values of current whose window holds a reading.
\* Visited is the set of these values: those first + k * step <= end, k >= 0,
\* with a stored timestamp t in [first + k * step, first + (k + 1) * step).
Visited(rows, first, end, step) ==
    {w \in {first + ((fromisoformat(m.timestamp) - first) \div step) * step :
                m \in rows} :
        first <= w /\ w <= end}

\* backfill_all: while current <= end, for one minute interval
RECURSIVE backfill_minutes(_, _, _)
backfill_minutes(db, todo, interval) ==
    IF todo = {} THEN db
    ELSE LET current == CHOOSE w \in todo : \A o \in todo : w <= o
         IN  backfill_minutes(
                 aggregate_minute_interval(db, current, interval).db,
                 todo \ {current}, interval)

\* backfill_all: for interval in self.MINUTE_INTERVALS
RECURSIVE backfill_intervals(_, _, _, _)
backfill_intervals(db, start, end, i) ==
    IF i > Len(MINUTE_INTERVALS) THEN db
    ELSE LET interval == MINUTE_INTERVALS[i]
         IN  backfill_intervals(
                 backfill_minutes(db,
                     Visited(db.measurements, replace_minute(start, interval),
                             end, timedelta(0, 0, interval)),
                     interval),
                 start, end, i + 1)

\* backfill_all: while current_hour <= end
RECURSIVE backfill_hours(_, _)
backfill_hours(db, todo) ==
    IF todo = {} THEN db
    ELSE LET current_hour == CHOOSE w \in todo : \A o \in todo : w <= o
         IN  backfill_hours(aggregate_hour(db, current_hour).db,
                            todo \ {current_hour})

\* backfill_all: while current_date <= end.date()
RECURSIVE backfill_days(_, _)
backfill_days(db, todo) ==
    IF todo = {} THEN db
    ELSE LET current_date == CHOOSE w \in todo : \A o \in todo : w <= o
         IN  backfill_days(aggregate_day(db, current_date).db,
                           todo \ {current_date})

\* Aggregator.backfill_all
backfill_all(db) ==
    IF min_timestamp(db.measurements) = NULL THEN db
    ELSE LET start == fromisoformat(min_timestamp(db.measurements)[1])
             end == fromisoformat(max_timestamp(db.measurements)[1])
             m == backfill_intervals(db, start, end, 1)
             h == backfill_hours(m, Visited(db.measurements,
                                     replace_hour(start), end,
                                     timedelta(0, 1, 0)))
         IN  backfill_days(h, {date_of(w) :
                                 w \in Visited(db.measurements,
                                     combine(date_of(start)),
                                     combine(date_of(end)),
                                     timedelta(1, 0, 0))})

\* run_incremental: for interval in self.MINUTE_INTERVALS
RECURSIVE incremental_intervals(_, _, _)
incremental_intervals(db, localnow, i) ==
    IF i > Len(MINUTE_INTERVALS) THEN db
    ELSE LET interval == MINUTE_INTERVALS[i]
             current_interval == replace_minute(localnow, interval)
             prev_interval == current_interval - timedelta(0, 0, interval)
             c == aggregate_minute_interval(db, current_interval, interval).db
             p == aggregate_minute_interval(c, prev_interval, interval).db
         IN  incremental_intervals(p, localnow, i + 1)

\* an incremental pass that reaches one date further back
run_incremental_three_dates(db, localnow) ==
    LET m == incremental_intervals(db, localnow, 1)
        current_hour == replace_hour(localnow)
        previous_hour == current_hour - timedelta(0, 1, 0)
        h1 == aggregate_hour(m, current_hour).db
        h2 == aggregate_hour(h1, previous_hour).db
        d1 == aggregate_day(h2, date_of(localnow)).db
        d2 == aggregate_day(d1, date_of(localnow) - 1).db
    IN  aggregate_day(d2, date_of(localnow) - 2).db

\* Aggregator.run_incremental
run_incremental(db, localnow) ==
    LET m == incremental_intervals(db, localnow, 1)
        current_hour == replace_hour(localnow)
        previous_hour == current_hour - timedelta(0, 1, 0)
        h1 == aggregate_hour(m, current_hour).db
        h2 == aggregate_hour(h1, previous_hour).db
        d1 == aggregate_day(h2, date_of(localnow)).db
        yesterday == date_of(localnow) - 1
    IN  aggregate_day(d1, yesterday).db

\* Aggregator.cleanup_old_raw_data; printed is the line it prints, if any:
\* "Cleaned up {deleted} old measurements (keeping {days_to_keep} days,
\* max {max_size_gb}GB). Current size: {size_mb:.1f}MB"
cleanup_old_raw_data(db, days_to_keep, max_size_gb, localnow) ==
    LET r == cleanup_if_size_exceeded(db, max_size_gb, days_to_keep, localnow)
    IN  [ret |-> r.ret, db |-> r.db, passes |-> r.passes,
         printed |-> IF r.ret > 0
                     THEN <<"Cleaned up", r.ret, days_to_keep, max_size_gb,
                            get_database_size_mb(r.db)>>
                     ELSE NULL]

(***************************************************************************)
(* CO2Database: analytics queries over hourly_stats.  A stored co2_avg or  *)
(* temp_avg is a number of tenths; an AVG over them is the fraction        *)
(* <<sum of the tenths, 10 * count>>, in units.                            *)
(***************************************************************************)
\* SUM(co2_count) over the rows of a group that has rows
RECURSIVE sum_co2_count(_)
sum_co2_count(rows) ==
    IF rows = {} THEN 0
    ELSE LET b == CHOOSE x \in rows : TRUE
         IN  b.co2_count + sum_co2_count(rows \ {b})

\* an average in which each row weighs as many times as it counts readings
RECURSIVE weighted_tenths(_)
weighted_tenths(rows) ==
    IF rows = {} THEN 0
    ELSE LET b == CHOOSE x \in rows : TRUE
         IN  b.co2_avg * b.co2_count + weighted_tenths(rows \ {b})
avg_co2_avg_weighted(rows) ==
    IF rows = {} THEN NULL
    ELSE <<weighted_tenths(rows), 10 * sum_co2_count(rows)>>

\* AVG(co2_avg) and AVG(temp_avg) over rows
avg_co2_avg(rows) ==
    LET a == SQL_AVG({<<b.hour_start, <<b.co2_avg>>>> : b \in rows})
    IN  IF a = NULL THEN NULL ELSE <<a[1], 10 * a[2]>>
avg_temp_avg(rows) ==
    LET a == SQL_AVG({<<b.hour_start, b.temp_avg>> : b \in rows})
    IN  IF a = NULL THEN NULL ELSE <<a[1], 10 * a[2]>>

\* the row of a comparison: round(row[0], 1) if row[0] else None, the same
\* of row[1], row[2] or 0
comparison_row(rows) ==
    [co2_avg |-> round1_if(avg_co2_avg(rows)),
     temp_avg |-> round1_if(avg_temp_avg(rows)),
     sample_count |-> IF rows = {} THEN 0 ELSE sum_co2_count(rows)]

\* CO2Database.get_hourly_pattern: one entry for each hour_of_day that has
\* rows (the list, which is in the order of hour, as the set of its entries)
get_hourly_pattern(db) ==
    {[hour |-> h,
      co2_avg |-> round1_if(avg_co2_avg(
                      {b \in db.hourly_stats : b.hour_of_day = h})),
      temp_avg |-> round1_if(avg_temp_avg(
                      {b \in db.hourly_stats : b.hour_of_day = h})),
      sample_count |-> sum_co2_count(
                      {b \in db.hourly_stats : b.hour_of_day = h})] :
        h \in {b.hour_of_day : b \in db.hourly_stats}}

\* CO2Database.get_weekly_pattern: one entry for each day_of_week that has
\* rows
get_weekly_pattern(db) ==
    {[day_num |-> d,
      co2_avg |-> round1_if(avg_co2_avg(
                      {b \in db.hourly_stats : b.day_of_week = d})),
      temp_avg |-> round1_if(avg_temp_avg(
                      {b \in db.hourly_stats : b.day_of_week = d})),
      sample_count |-> sum_co2_count(
                      {b \in db.hourly_stats : b.day_of_week = d})] :
        d \in {b.day_of_week : b \in db.hourly_stats}}

\* CO2Database.get_day_night_comparison
get_day_night_comparison(db) ==
    [day |-> comparison_row({b \in db.hourly_stats : b.is_daytime}),
     night |-> comparison_row({b \in db.hourly_stats : ~b.is_daytime})]

\* CO2Database.get_workday_weekend_comparison
get_workday_weekend_comparison(db) ==
    [workday |-> comparison_row({b \in db.hourly_stats : b.is_workday}),
     weekend |-> comparison_row({b \in db.hourly_stats : b.day_of_week >= 5})]

(***************************************************************************)
(* The environment: the clock, the sensor's readings, the arguments        *)
(***************************************************************************)
\* the instants at which something happens, from Sunday 2025-12-28 (day
\* 20450) on: the second before an hour, the hour, the start of the night,
\* midnight, two days and a second after the hour
ClockSamples ==
    <<timedelta(20450, 13, 59) + 59, timedelta(20450, 14, 0),
      timedelta(20450, 22, 0), timedelta(20451, 0, 0),
      timedelta(20452, 14, 0) + 1>>

\* offsets of the host's local clock from UTC
TzOffsets == {0}

\* what the sensor delivers, reading after reading: co2_ppm,
\* temperature_celsius
SampleReadings ==
    <<<<500, NULL>>, <<600, <<21>>>>, <<552, <<0>>>>, <<501, <<20>>>>>>
Reading(i) == SampleReadings[((i - 1) % Len(SampleReadings)) + 1]

\* arguments of the single aggregation calls: the hour that starts at the
\* second sample and the empty hour after it, the intervals that end there,
\* the two dates with samples
HourStarts == {timedelta(20450, 14, 0), timedelta(20450, 15, 0)}
IntervalStarts(interval) == {replace_minute(ClockSamples[1], interval)}
StatDates == {20450, 20451}

\* arguments of the retention pass (--cleanup DAYS, --max-size GB)
DaysToKeepArgs == {0, 1, 3, DEFAULT_DAYS_TO_KEEP}
MaxSizeGbArgs == {0, 2, DEFAULT_MAX_SIZE_GB}

localnow == now + tz

\* the daemon before python aggregator.py --daemon is run; interval is its
\* interval_minutes, cleaned_at the time of its latest retention pass
NotStarted == [pc |-> "idle", running |-> FALSE, i |-> 0, now |-> 0, fetched |-> <<>>, slept_from |-> 0, interval |-> 0, cleaned_at |-> 0]

\* the aggregation thread before api_server.py is started; since is the time
\* at which the thread was started
ServerNotStarted == [pc |-> "idle", stop |-> FALSE, i |-> 0, now |-> 0, fetched |-> <<>>, slept_from |-> 0, since |-> 0]

\* a NotificationManager as its constructor leaves it; pc is where a call of
\* send_co2_alarm stands, cooldown_minutes the argument of that call, ret what
\* the latest call returned, sent_at the time the latest notification went out
NotificationManager == [pc |-> "idle", last_notification |-> NULL, cooldown_minutes |-> 0, ret |-> NULL, sent_at |-> NULL]

\* a CO2Tracker as its constructor leaves it; consecutive_errors is the local
\* of _run_loop, attempts the outcome of every iteration of the loop so far
CO2Tracker == [pc |-> "idle", running |-> FALSE, consecutive_errors |-> 0, attempts |-> <<>>]

(***************************************************************************)
(* The state machine                                                       *)
(***************************************************************************)
SetDB(db) ==
    /\ measurements' = db.measurements
    /\ minute_stats' = db.minute_stats
    /\ hourly_stats' = db.hourly_stats
    /\ daily_stats' = db.daily_stats
    /\ sqlite_sequence' = db.sqlite_sequence
    /\ file_size' = db.file_size

\* CO2Database.__init__ on a new file: the schema, no rows
Init ==
    /\ measurements = {}
    /\ minute_stats = {}
    /\ hourly_stats = {}
    /\ daily_stats = {}
    /\ sqlite_sequence = [measurements |-> 0]
    /\ file_size = 1
    /\ now = ClockSamples[1]
    /\ tz \in TzOffsets
    /\ last = [op |-> "init", ret |-> NULL]
    /\ daemon = NotStarted
    /\ server = ServerNotStarted
    /\ notifier = NotificationManager
    /\ tracker = CO2Tracker

\* time passes
Tick ==
    /\ \E i \in 1..(Len(ClockSamples) - 1) :
          now = ClockSamples[i] /\ now' = ClockSamples[i + 1]
    /\ UNCHANGED <<measurements, minute_stats, hourly_stats, daily_stats,
                   sqlite_sequence, file_size, tz, last, daemon,
                   server, notifier, tracker>>

\* the reader stores a reading (tracker.py, api_server.reading_loop)
Insert ==
    /\ sqlite_sequence.measurements < MaxReadings
    /\ LET s == Reading(sqlite_sequence.measurements + 1)
           r == insert(DB, now, s[1], s[2])
       IN  /\ SetDB(r.db)
           /\ last' = [op |-> "insert", ret |-> r.ret]
    /\ UNCHANGED <<now, tz, daemon, server, notifier, tracker>>

AggregateMinuteInterval ==
    /\ \E i \in 1..Len(MINUTE_INTERVALS) :
          \E interval_start \in IntervalStarts(MINUTE_INTERVALS[i]) :
             LET r == aggregate_minute_interval(DB, interval_start,
                                                MINUTE_INTERVALS[i])
             IN  /\ SetDB(r.db)
                 /\ last' = [op |-> "aggregate_minute_interval", ret |-> r.ret]
    /\ UNCHANGED <<now, tz, daemon, server, notifier, tracker>>

AggregateHour ==
    /\ \E hour_start \in HourStarts :
          LET r == aggregate_hour(DB, hour_start)
          IN  /\ SetDB(r.db)
              /\ last' = [op |-> "aggregate_hour", ret |-> r.ret]
    /\ UNCHANGED <<now, tz, daemon, server, notifier, tracker>>

AggregateDay ==
    /\ \E stat_date \in StatDates :
          LET r == aggregate_day(DB, stat_date)
          IN  /\ SetDB(r.db)
              /\ last' = [op |-> "aggregate_day", ret |-> r.ret]
    /\ UNCHANGED <<now, tz, daemon, server, notifier, tracker>>

\* aggregator.py --backfill
BackfillAll ==
    /\ LET db == backfill_all(DB)
       IN  SetDB(db)
    /\ last' = [op |-> "backfill_all", ret |-> NULL]
    /\ UNCHANGED <<now, tz, daemon, server, notifier, tracker>>

\* aggregator.py without a mode: one incremental pass
RunIncremental ==
    /\ LET db == run_incremental(DB, localnow)
       IN  SetDB(db)
    /\ last' = [op |-> "run_incremental", ret |-> NULL]
    /\ UNCHANGED <<now, tz, daemon, server, notifier, tracker>>

\* aggregator.py --cleanup DAYS --max-size GB
CleanupOldRawData ==
    /\ \E days_to_keep \in DaysToKeepArgs, max_size_gb \in MaxSizeGbArgs :
          LET r == cleanup_old_raw_data(DB, days_to_keep, max_size_gb, localnow)
          IN  /\ SetDB(r.db)
              /\ last' = [op |-> "cleanup_old_raw_data", ret |-> r.ret]
    /\ UNCHANGED <<now, tz, daemon, server, notifier, tracker>>

\* the aggregation engine and the retention manager as the command line and
\* the drivers run them, beside the reader
Next ==
    \/ Tick
    \/ Insert
    \/ BackfillAll
    \/ RunIncremental
    \/ CleanupOldRawData

Spec == Init /\ [][Next]_vars

\* the single aggregation calls, beside the reader
NextCalls ==
    \/ Tick
    \/ Insert
    \/ AggregateMinuteInterval
    \/ AggregateHour
    \/ AggregateDay

SpecCalls == Init /\ [][NextCalls]_vars

(***************************************************************************)
(* Aggregator.run_daemon, call by call.  The reader (tracker.py) is        *)
(* another process: it inserts between any two statements of the daemon,   *)
(* in particular between the SELECT of an aggregation call and its         *)
(* INSERT OR REPLACE, which use two connections.  daemon.pc is the         *)
(* statement the daemon stands at:                                         *)
(*   "idle"      not started                                               *)
(*   "backfill"  self.backfill_all()                     (line 318)        *)
(*   "loop"      while self.running                      (line 320)        *)
(*   "select"    the SELECT of call daemon.i of run_incremental            *)
(*   "select_day"    the SELECT of the day average, in aggregate_day       *)
(*   "select_night"  the SELECT of the night average, in aggregate_day     *)
(*   "insert"    the INSERT OR REPLACE of call daemon.i                    *)
(*   "cleanup"   if datetime.now().minute < interval_minutes (line 325)    *)
(*   "sleep"     the for loop of time.sleep(5)           (lines 332-335)   *)
(*   "stopped"   run_daemon has returned                                   *)
(*   "crashed"   an exception has left run_daemon                          *)
(***************************************************************************)
\* the calls of run_incremental, in the order of the code
incremental_calls(t) ==
    LET minute(i) == [op |-> "aggregate_minute_interval",
                      start |-> replace_minute(t, MINUTE_INTERVALS[i]),
                      minutes |-> MINUTE_INTERVALS[i]]
        prev(c) == [c EXCEPT !.start = @ - timedelta(0, 0, c.minutes)]
        hour == [op |-> "aggregate_hour", start |-> replace_hour(t),
                 minutes |-> 60]
        day == [op |-> "aggregate_day", start |-> combine(date_of(t)),
                minutes |-> 1440]
    IN  <<minute(1), prev(minute(1)), minute(2), prev(minute(2)),
          minute(3), prev(minute(3)), hour, prev(hour), day, prev(day)>>

\* a SELECT that returns one row of the window only
fetch_one(db, c) ==
    LET rows == where_window(db.measurements, strftime(c.start),
                    strftime(c.start + timedelta(0, 0, c.minutes)))
    IN  IF rows = {} THEN {}
        ELSE {CHOOSE m \in rows : \A o \in rows : m.id >= o.id}

\* the rows that the SELECT ... WHERE timestamp >= ? AND timestamp < ? of a
\* call reads
fetch(db, c) ==
    where_window(db.measurements, strftime(c.start),
                 strftime(c.start + timedelta(0, 0, c.minutes)))

\* the call on db
aggregate_call(db, c) ==
    CASE c.op = "aggregate_minute_interval" ->
            aggregate_minute_interval(db, c.start, c.minutes)
      [] c.op = "aggregate_hour" -> aggregate_hour(db, c.start)
      [] c.op = "aggregate_day" -> aggregate_day(db, date_of(c.start))

\* the rows that the SELECT of the day average and the SELECT of the night
\* average of aggregate_day read
fetch_day(db, c) == where_day(fetch(db, c), DAYTIME_START, DAYTIME_END)
fetch_night(db, c) == where_night(fetch(db, c), DAYTIME_END, DAYTIME_START)

\* the rest of a call whose SELECTs have read the rows fetched, one set of
\* rows for each SELECT in the order of the code: the row is computed from
\* them and written to the database as it is by then
write_fetched(db, fetched, c) ==
    LET r == IF c.op = "aggregate_day"
             THEN aggregate_day_reads(db, date_of(c.start), fetched[1],
                                      fetched[2], fetched[3])
             ELSE aggregate_call([db EXCEPT !.measurements = fetched[1]], c)
    IN  commit([r.db EXCEPT !.measurements = db.measurements])

\* run_daemon(interval_minutes): the handlers are installed, running is set
run_daemon(interval_minutes) ==
    /\ daemon.pc = "idle"
    /\ daemon' = [daemon EXCEPT !.pc = "backfill", !.running = TRUE,
                                !.interval = interval_minutes]
    /\ UNCHANGED <<measurements, minute_stats, hourly_stats, daily_stats,
                   sqlite_sequence, file_size, now, tz, last, server,
                   notifier, tracker>>

\* python aggregator.py --daemon
RunDaemon == run_daemon(DEFAULT_INTERVAL)

\* if datetime.now().minute <= interval_minutes
cleanup_due_inclusive(t, interval_minutes) == minute_of(t) <= interval_minutes

\* if datetime.now().minute < interval_minutes
cleanup_due(t, interval_minutes) == minute_of(t) < interval_minutes

\* for _ in range(interval_minutes * 60 // 5): time.sleep(5), in seconds
sleep_seconds(interval_minutes) == ((interval_minutes * 60) \div 5) * 5

\* SIGINT without the handler: KeyboardInterrupt is raised in the statement
\* that runs, no except Exception catches it, and run_daemon is left
SignalInterrupts ==
    /\ daemon.pc \notin {"idle", "stopped", "crashed"}
    /\ daemon.running
    /\ daemon' = [daemon EXCEPT !.pc = "stopped", !.running = FALSE,
                                !.i = 0, !.now = 0, !.fetched = <<>>,
                                !.slept_from = 0]
    /\ UNCHANGED <<measurements, minute_stats, hourly_stats, daily_stats,
                   sqlite_sequence, file_size, now, tz, last, server,
                   notifier, tracker>>

\* SIGINT and SIGTERM while the handler is installed: the handler clears the
\* flag and returns, what had been interrupted goes on
SignalHandler ==
    /\ daemon.pc \notin {"idle", "stopped", "crashed"}
    /\ daemon.running
    /\ daemon' = [daemon EXCEPT !.running = FALSE]
    /\ UNCHANGED <<measurements, minute_stats, hourly_stats, daily_stats,
                   sqlite_sequence, file_size, now, tz, last, server,
                   notifier, tracker>>

\* the initial backfill
DaemonBackfill ==
    /\ daemon.pc = "backfill"
    /\ SetDB(backfill_all(DB))
    /\ daemon' = [daemon EXCEPT !.pc = "loop"]
    /\ UNCHANGED <<now, tz, last, server, notifier, tracker>>

\* a loop that runs the backfill again at the head of every tick
DaemonLoopBackfilling ==
    /\ daemon.pc = "loop"
    /\ daemon' = IF daemon.running
                 THEN [daemon EXCEPT !.pc = "backfill"]
                 ELSE [daemon EXCEPT !.pc = "stopped"]
    /\ UNCHANGED <<measurements, minute_stats, hourly_stats, daily_stats,
                   sqlite_sequence, file_size, now, tz, last, server,
                   notifier, tracker>>

\* while self.running: run_incremental reads the clock, or the loop is left
DaemonLoop ==
    /\ daemon.pc = "loop"
    /\ daemon' = IF daemon.running
                 THEN [daemon EXCEPT !.pc = "select", !.i = 1, !.now = localnow]
                 ELSE [daemon EXCEPT !.pc = "stopped"]
    /\ UNCHANGED <<measurements, minute_stats, hourly_stats, daily_stats,
                   sqlite_sequence, file_size, now, tz, last, server,
                   notifier, tracker>>

\* where the daemon stands when call i has returned
after_call(d) ==
    IF d.i < Len(incremental_calls(d.now))
    THEN [d EXCEPT !.pc = "select", !.i = @ + 1, !.fetched = <<>>]
    ELSE [d EXCEPT !.pc = "cleanup", !.i = 0, !.now = 0, !.fetched = <<>>]

\* the SELECT of a call; if row[3] == 0: return False
DaemonSelect ==
    /\ daemon.pc = "select"
    /\ LET c == incremental_calls(daemon.now)[daemon.i]
           rows == fetch(DB, c)
       IN  daemon' = IF rows = {} THEN after_call(daemon)
                     ELSE [daemon EXCEPT
                             !.pc = IF c.op = "aggregate_day"
                                    THEN "select_day" ELSE "insert",
                             !.fetched = <<rows>>]
    /\ UNCHANGED <<measurements, minute_stats, hourly_stats, daily_stats,
                   sqlite_sequence, file_size, now, tz, last, server,
                   notifier, tracker>>

\* aggregate_day: the SELECT of the day average
DaemonSelectDay ==
    /\ daemon.pc = "select_day"
    /\ daemon' = [daemon EXCEPT
                    !.pc = "select_night",
                    !.fetched = Append(@, fetch_day(DB,
                                    incremental_calls(daemon.now)[daemon.i]))]
    /\ UNCHANGED <<measurements, minute_stats, hourly_stats, daily_stats,
                   sqlite_sequence, file_size, now, tz, last, server,
                   notifier, tracker>>

\* aggregate_day: the SELECT of the night average
DaemonSelectNight ==
    /\ daemon.pc = "select_night"
    /\ daemon' = [daemon EXCEPT
                    !.pc = "insert",
                    !.fetched = Append(@, fetch_night(DB,
                                    incremental_calls(daemon.now)[daemon.i]))]
    /\ UNCHANGED <<measurements, minute_stats, hourly_stats, daily_stats,
                   sqlite_sequence, file_size, now, tz, last, server,
                   notifier, tracker>>

\* the INSERT OR REPLACE of a call, and its commit
DaemonInsert ==
    /\ daemon.pc = "insert"
    /\ SetDB(write_fetched(DB, daemon.fetched,
                           incremental_calls(daemon.now)[daemon.i]))
    /\ daemon' = after_call(daemon)
    /\ UNCHANGED <<now, tz, last, server, notifier, tracker>>

\* cleanup once per hour, with the default arguments; then the sleep starts
DaemonCleanup ==
    /\ daemon.pc = "cleanup"
    /\ IF cleanup_due(localnow, daemon.interval)
       THEN /\ SetDB(cleanup_old_raw_data(DB, DEFAULT_DAYS_TO_KEEP,
                                          DEFAULT_MAX_SIZE_GB, localnow).db)
            /\ daemon' = [daemon EXCEPT !.pc = "sleep", !.slept_from = now,
                                        !.cleaned_at = localnow]
       ELSE /\ UNCHANGED <<measurements, minute_stats, hourly_stats,
                           daily_stats, sqlite_sequence, file_size>>
            /\ daemon' = [daemon EXCEPT !.pc = "sleep", !.slept_from = now]
    /\ UNCHANGED <<now, tz, last, server, notifier, tracker>>

\* the sleep ends: interval_minutes have passed, or the flag was found
\* cleared (break)
DaemonWake ==
    /\ daemon.pc = "sleep"
    /\ \/ ~daemon.running
       \/ now >= daemon.slept_from + sleep_seconds(daemon.interval)
    /\ daemon' = [daemon EXCEPT !.pc = "loop", !.slept_from = 0]
    /\ UNCHANGED <<measurements, minute_stats, hourly_stats, daily_stats,
                   sqlite_sequence, file_size, now, tz, last, server,
                   notifier, tracker>>

\* the statement the daemon stands at raises sqlite3.Error (the file is
\* locked or cannot be opened) before it has changed anything.  Inside the
\* try of the loop, except Exception prints it and the sleep follows; the
\* initial backfill is outside the try and the exception leaves run_daemon.
StorageFailure ==
    /\ daemon.pc \in {"backfill", "select", "select_day", "select_night",
                      "insert", "cleanup"}
    /\ daemon' = IF daemon.pc = "backfill"
                 THEN [daemon EXCEPT !.pc = "crashed", !.running = FALSE]
                 ELSE [daemon EXCEPT !.pc = "sleep", !.i = 0, !.now = 0,
                                     !.fetched = <<>>, !.slept_from = now]
    /\ UNCHANGED <<measurements, minute_stats, hourly_stats, daily_stats,
                   sqlite_sequence, file_size, now, tz, last, server,
                   notifier, tracker>>

\* the reader beside the daemon: Insert, up to MaxDaemonReadings times
ReaderInsert ==
    /\ sqlite_sequence.measurements < MaxDaemonReadings
    /\ Insert

\* the daemon beside the reader
NextDaemon ==
    \/ Tick
    \/ ReaderInsert
    \/ RunDaemon
    \/ SignalHandler
    \/ DaemonBackfill
    \/ DaemonLoop
    \/ DaemonSelect
    \/ DaemonSelectDay
    \/ DaemonSelectNight
    \/ DaemonInsert
    \/ DaemonCleanup
    \/ DaemonWake
    \/ StorageFailure

SpecDaemon == Init /\ [][NextDaemon]_vars

(***************************************************************************)
(* api_server.py: the thread aggregation_loop, call by call, beside the    *)
(* thread reading_loop, which inserts.  server.pc is the statement the     *)
(* thread stands at:                                                       *)
(*   "idle"      the server is not started                                 *)
(*   "loop"      while not stop_aggregator.is_set()      (line 77)         *)
(*   "select", "select_day", "select_night", "insert"                      *)
(*               the statements of call server.i of run_incremental        *)
(*   "sleep"     the for loop of time.sleep(1)           (lines 84-87)     *)
(*   "stopped"   aggregation_loop has returned                             *)
(***************************************************************************)
\* lifespan, startup: stop_aggregator is cleared and the thread is started
LifespanStartup ==
    /\ server.pc = "idle"
    /\ server' = [server EXCEPT !.pc = "loop", !.stop = FALSE, !.since = now]
    /\ UNCHANGED <<measurements, minute_stats, hourly_stats, daily_stats,
                   sqlite_sequence, file_size, now, tz, last, daemon,
                   notifier, tracker>>

\* lifespan, shutdown: stop_aggregator.set()
LifespanShutdown ==
    /\ server.pc \notin {"idle", "stopped"}
    /\ ~server.stop
    /\ server' = [server EXCEPT !.stop = TRUE]
    /\ UNCHANGED <<measurements, minute_stats, hourly_stats, daily_stats,
                   sqlite_sequence, file_size, now, tz, last, daemon,
                   notifier, tracker>>

\* while not stop_aggregator.is_set(): run_incremental reads the clock, or
\* the loop is left
AggregationLoop ==
    /\ server.pc = "loop"
    /\ server' = IF ~server.stop
                 THEN [server EXCEPT !.pc = "select", !.i = 1, !.now = localnow]
                 ELSE [server EXCEPT !.pc = "stopped"]
    /\ UNCHANGED <<measurements, minute_stats, hourly_stats, daily_stats,
                   sqlite_sequence, file_size, now, tz, last, daemon,
                   notifier, tracker>>

\* where the thread stands when call i has returned, at time t: the next
\* call, or the sleep, which follows the last call at once
aggregation_after_call(d, t) ==
    IF d.i < Len(incremental_calls(d.now))
    THEN [d EXCEPT !.pc = "select", !.i = @ + 1, !.fetched = <<>>]
    ELSE [d EXCEPT !.pc = "sleep", !.i = 0, !.now = 0, !.fetched = <<>>,
                   !.slept_from = t]

\* the SELECT of a call; if row[3] == 0: return False
AggregationSelect ==
    /\ server.pc = "select"
    /\ LET c == incremental_calls(server.now)[server.i]
           rows == fetch(DB, c)
       IN  server' = IF rows = {} THEN aggregation_after_call(server, now)
                     ELSE [server EXCEPT
                             !.pc = IF c.op = "aggregate_day"
                                    THEN "select_day" ELSE "insert",
                             !.fetched = <<rows>>]
    /\ UNCHANGED <<measurements, minute_stats, hourly_stats, daily_stats,
                   sqlite_sequence, file_size, now, tz, last, daemon,
                   notifier, tracker>>

\* aggregate_day: the SELECT of the day average
AggregationSelectDay ==
    /\ server.pc = "select_day"
    /\ server' = [server EXCEPT
                    !.pc = "select_night",
                    !.fetched = Append(@, fetch_day(DB,
                                    incremental_calls(server.now)[server.i]))]
    /\ UNCHANGED <<measurements, minute_stats, hourly_stats, daily_stats,
                   sqlite_sequence, file_size, now, tz, last, daemon,
                   notifier, tracker>>

\* aggregate_day: the SELECT of the night average
AggregationSelectNight ==
    /\ server.pc = "select_night"
    /\ server' = [server EXCEPT
                    !.pc = "insert",
                    !.fetched = Append(@, fetch_night(DB,
                                    incremental_calls(server.now)[server.i]))]
    /\ UNCHANGED <<measurements, minute_stats, hourly_stats, daily_stats,
                   sqlite_sequence, file_size, now, tz, last, daemon,
                   notifier, tracker>>

\* the INSERT OR REPLACE of a call, and its commit
AggregationInsert ==
    /\ server.pc = "insert"
    /\ SetDB(write_fetched(DB, server.fetched,
                           incremental_calls(server.now)[server.i]))
    /\ server' = aggregation_after_call(server, now)
    /\ UNCHANGED <<now, tz, last, daemon, notifier, tracker>>

\* the statement the thread stands at raises sqlite3.Error before it has
\* changed anything: except Exception prints it and the sleep follows
AggregationFailure ==
    /\ server.pc \in {"select", "select_day", "select_night", "insert"}
    /\ server' = [server EXCEPT !.pc = "sleep", !.i = 0, !.now = 0,
                                !.fetched = <<>>, !.slept_from = now]
    /\ UNCHANGED <<measurements, minute_stats, hourly_stats, daily_stats,
                   sqlite_sequence, file_size, now, tz, last, daemon,
                   notifier, tracker>>

\* the sleep ends: 300 seconds have passed, or stop_aggregator was found
\* set (break)
AggregationWake ==
    /\ server.pc = "sleep"
    /\ \/ server.stop
       \/ now >= server.slept_from + 300
    /\ server' = [server EXCEPT !.pc = "loop", !.slept_from = 0]
    /\ UNCHANGED <<measurements, minute_stats, hourly_stats, daily_stats,
                   sqlite_sequence, file_size, now, tz, last, daemon,
                   notifier, tracker>>

\* the API server beside its reader thread
NextServer ==
    \/ Tick
    \/ ReaderInsert
    \/ LifespanStartup
    \/ LifespanShutdown
    \/ AggregationLoop
    \/ AggregationSelect
    \/ AggregationSelectDay
    \/ AggregationSelectNight
    \/ AggregationInsert
    \/ AggregationFailure
    \/ AggregationWake

SpecServer == Init /\ [][NextServer]_vars

\* the daemon and the API server on one database file at one time of the
\* clock, each through its first incremental pass, beside the reader
NextWriters ==
    \/ ReaderInsert
    \/ RunDaemon
    \/ DaemonBackfill
    \/ DaemonLoop
    \/ DaemonSelect
    \/ DaemonSelectDay
    \/ DaemonSelectNight
    \/ DaemonInsert
    \/ DaemonCleanup
    \/ LifespanStartup
    \/ AggregationLoop
    \/ AggregationSelect
    \/ AggregationSelectDay
    \/ AggregationSelectNight
    \/ AggregationInsert

SpecWriters == Init /\ [][NextWriters]_vars

(***************************************************************************)
(* The daemon's ticks against a clock that advances minute by minute, for  *)
(* several values of --interval, on a database without readings: between   *)
(* any two statements of the daemon any number of minutes may pass.        *)
(***************************************************************************)
\* the values of --interval: a minute, the default, an hour
IntervalArgs == {1, DEFAULT_INTERVAL, 60}

\* python aggregator.py --daemon --interval N
RunDaemonInterval == \E interval_minutes \in IntervalArgs : run_daemon(interval_minutes)

\* a minute passes, up to MaxTickMinutes minutes after the first sample of
\* the clock
TickMinute ==
    /\ now < ClockSamples[1] + timedelta(0, 0, MaxTickMinutes)
    /\ now' = now + timedelta(0, 0, 1)
    /\ UNCHANGED <<measurements, minute_stats, hourly_stats, daily_stats,
                   sqlite_sequence, file_size, tz, last, daemon, server,
                   notifier, tracker>>

NextTicks ==
    \/ TickMinute
    \/ RunDaemonInterval
    \/ SignalHandler
    \/ DaemonBackfill
    \/ DaemonLoop
    \/ DaemonSelect
    \/ DaemonCleanup
    \/ DaemonWake
    \/ StorageFailure

SpecTicks == Init /\ [][NextTicks]_vars

(***************************************************************************)
(* Vocabulary of the properties                                            *)
(***************************************************************************)
\* the resolutions, with the width of their windows in minutes
Resolutions == {<<"minute", 5>>, <<"minute", 10>>, <<"minute", 15>>,
                <<"hour", 60>>, <<"day", 1440>>}
Width(res) == timedelta(0, 0, res[2])

\* the aggregation operation of a resolution on the window that starts at start
Aggregate(db, res, start) ==
    CASE res[1] = "minute" -> aggregate_minute_interval(db, start, res[2])
      [] res[1] = "hour" -> aggregate_hour(db, start)
      [] res[1] = "day" -> aggregate_day(db, date_of(start))

\* the stored rows of the window's key
Bucket(db, res, start) ==
    CASE res[1] = "minute" ->
            {b \in db.minute_stats : b.interval_start = strftime(start)
                                     /\ b.interval_minutes = res[2]}
      [] res[1] = "hour" ->
            {b \in db.hourly_stats : b.hour_start = strftime(start)}
      [] res[1] = "day" ->
            {b \in db.daily_stats : b.date = strftime_date(date_of(start))}

\* the number of readings a row stands for
CountOf(res, b) == IF res[1] = "day" THEN b.measurement_count ELSE b.co2_count

\* the instant of a reading, and the readings of a window [start, start+width)
At(m) == fromisoformat(m.timestamp)
ReadingsIn(rows, start, width) ==
    {m \in rows : start <= At(m) /\ At(m) < start + width}

\* the start of the aligned window of width seconds that holds instant t
AlignedStart(t, width) == t - (t % width)

\* the aligned windows at, before and after the samples of the clock
WindowStarts(res) ==
    UNION {{AlignedStart(ClockSamples[i], Width(res)) + k * Width(res) :
              k \in {-1, 0, 1}} : i \in 1..Len(ClockSamples)}

AggregateStores(db) == <<db.minute_stats, db.hourly_stats, db.daily_stats>>

IsAggregation(op) ==
    op \in {"aggregate_minute_interval", "aggregate_hour", "aggregate_day"}

(***************************************************************************)
(* C1  Idempotence: at every resolution and for every window, a second     *)
(* aggregation call on the window, the raw readings unchanged since the    *)
(* first, returns what the first returned and leaves the database, the     *)
(* window's bucket included, as the first call left it.                    *)
(***************************************************************************)
C1_Idempotence ==
    \A res \in Resolutions : \A start \in WindowStarts(res) :
        LET first == Aggregate(DB, res, start)
            second == Aggregate(first.db, res, start)
        IN  /\ second.ret = first.ret
            /\ second.db = first.db
            /\ Bucket(second.db, res, start) = Bucket(first.db, res, start)

\* a call has just written the bucket of an hour that holds two readings or
\* more, and nothing has changed since: the next call on it is the second
C1_Witness ==
    /\ last.op = "aggregate_hour" /\ last.ret = TRUE
    /\ \E start \in HourStarts :
          /\ Cardinality(ReadingsIn(measurements, start, 3600)) >= 2
          /\ Aggregate(DB, <<"hour", 60>>, start).ret = TRUE
          /\ Aggregate(DB, <<"hour", 60>>, start).db = DB

(***************************************************************************)
(* C2  Aggregate survival: a stored hour or day bucket that stands for     *)
(* more readings than its window still holds (readings of its window have  *)
(* been pruned since it was computed) is kept, with the same contents, by  *)
(* every later step: retention pass, incremental pass or backfill.         *)
(***************************************************************************)
PrunedBuckets(res) ==
    CASE res[1] = "hour" ->
            {b \in hourly_stats :
                CountOf(res, b) > Cardinality(ReadingsIn(measurements,
                                      fromisoformat(b.hour_start), Width(res)))}
      [] res[1] = "day" ->
            {b \in daily_stats :
                CountOf(res, b) > Cardinality(ReadingsIn(measurements,
                                      combine(b.date[1]), Width(res)))}

C2_AggregateSurvival ==
    [][/\ PrunedBuckets(<<"hour", 60>>) \subseteq hourly_stats'
       /\ PrunedBuckets(<<"day", 1440>>) \subseteq daily_stats']_vars

(***************************************************************************)
(* C3  A retention pass, whatever its arguments, leaves the rows of the    *)
(* minute, hour and day stores as they are and adds no raw reading: it     *)
(* only removes rows of measurements.                                      *)
(***************************************************************************)
RetentionDays == {-1, 0, 1, 2, 3, DEFAULT_DAYS_TO_KEEP}
RetentionSizes == {0, 1, 2, 3, DEFAULT_MAX_SIZE_GB}

C3_RetentionFrame ==
    \A days_to_keep \in RetentionDays, max_size_gb \in RetentionSizes :
        LET r == cleanup_old_raw_data(DB, days_to_keep, max_size_gb, localnow)
        IN  /\ AggregateStores(r.db) = AggregateStores(DB)
            /\ r.db.measurements \subseteq measurements
            /\ r.db.sqlite_sequence = sqlite_sequence

\* a retention pass has just deleted readings while the three stores held
\* rows computed from them
C3_Witness ==
    /\ last.op = "cleanup_old_raw_data" /\ last.ret > 0
    /\ minute_stats # {} /\ hourly_stats # {} /\ daily_stats # {}
    /\ PrunedBuckets(<<"hour", 60>>) # {}

(***************************************************************************)
(* C4  Backfill completeness: when backfill_all has completed and the raw  *)
(* readings are as it read them, every aligned window of every resolution  *)
(* (5, 10, 15 minutes, hour, date) that holds a reading has exactly one    *)
(* stored row, and the row's count is the number of readings of the window.*)
(***************************************************************************)
C4_BackfillComplete ==
    last.op = "backfill_all" =>
        \A m \in measurements : \A res \in Resolutions :
            LET start == AlignedStart(At(m), Width(res))
                rows == Bucket(DB, res, start)
            IN  /\ Cardinality(rows) = 1
                /\ \A b \in rows :
                      CountOf(res, b) =
                          Cardinality(ReadingsIn(measurements, start, Width(res)))

\* a backfill has completed over readings of several hours and of two dates,
\* the latest of them on an hour boundary
C4_Witness ==
    /\ last.op = "backfill_all"
    /\ Cardinality(measurements) = 3
    /\ Cardinality(hourly_stats) >= 2 /\ Cardinality(daily_stats) = 2
    /\ \E m \in measurements :
          /\ At(m) % 3600 = 0
          /\ \A o \in measurements : At(o) <= At(m)

(***************************************************************************)
(* C5  Boundary exactness: at every resolution, a reading whose timestamp  *)
(* is the boundary between two aligned windows is counted by the bucket of *)
(* the window that starts there and not by the bucket of the window that   *)
(* ends there.                                                             *)
(***************************************************************************)
\* the count of the bucket that the aggregation call on the window writes
\* into empty stores, 0 when it writes none
WithRows(db, rows) ==
    [db EXCEPT !.measurements = rows, !.minute_stats = {},
               !.hourly_stats = {}, !.daily_stats = {}]
CountedIn(rows, res, start) ==
    LET r == Aggregate(WithRows(DB, rows), res, start)
        b == Bucket(r.db, res, start)
    IN  IF r.ret THEN CountOf(res, CHOOSE x \in b : TRUE) ELSE 0

C5_BoundaryExact ==
    \A m \in measurements : \A res \in Resolutions :
        At(m) % Width(res) = 0 =>
            /\ CountedIn(measurements, res, At(m))
                   = CountedIn(measurements \ {m}, res, At(m)) + 1
            /\ CountedIn(measurements, res, At(m) - Width(res))
                   = CountedIn(measurements \ {m}, res, At(m) - Width(res))

\* the hour that starts at 14:00:00 has just been aggregated, with a reading
\* at 14:00:00 and one at 13:59:59 stored; another reading is at midnight
C5_Witness ==
    /\ last.op = "aggregate_hour" /\ last.ret = TRUE
    /\ \E m, o \in measurements :
          /\ At(m) % 3600 = 0 /\ At(o) = At(m) - 1
          /\ Bucket(DB, <<"hour", 60>>, At(m)) # {}
    /\ \E m \in measurements : At(m) % 86400 = 0

(***************************************************************************)
(* C6  No data: an aggregation call on a window that holds no reading      *)
(* returns False and leaves the whole database, the three aggregate stores *)
(* included, as it was.                                                    *)
(***************************************************************************)
C6_NoData ==
    \A res \in Resolutions : \A start \in WindowStarts(res) :
        ReadingsIn(measurements, start, Width(res)) = {} =>
            /\ Aggregate(DB, res, start).ret = FALSE
            /\ Aggregate(DB, res, start).db = DB

\* an incremental pass has just called aggregate_day on today, which holds
\* no reading any more while its row, computed before the pruning, is stored
C6_Witness ==
    /\ last.op = "run_incremental"
    /\ ReadingsIn(measurements, combine(date_of(localnow)), 86400) = {}
    /\ Bucket(DB, <<"day", 1440>>, combine(date_of(localnow))) # {}

(***************************************************************************)
(* C7  Rollup correctness: an aggregation call on a window that holds a    *)
(* reading returns True and leaves one row for the window, with co2_min,   *)
(* co2_max and the count the minimum, the maximum and the number of the    *)
(* co2_ppm of the readings with start <= timestamp < start + width, and    *)
(* co2_avg a tenth nearest to their mean.                                  *)
(***************************************************************************)
RECURSIVE SumCo2(_)
SumCo2(rows) ==
    IF rows = {} THEN 0
    ELSE LET m == CHOOSE x \in rows : TRUE
         IN  m.co2_ppm + SumCo2(rows \ {m})

Abs(x) == IF x < 0 THEN -x ELSE x

C7_Rollup ==
    \A res \in Resolutions : \A start \in WindowStarts(res) :
        LET inside == ReadingsIn(measurements, start, Width(res))
            r == Aggregate(DB, res, start)
            rows == Bucket(r.db, res, start)
        IN  inside # {} =>
              /\ r.ret = TRUE
              /\ Cardinality(rows) = 1
              /\ \A b \in rows :
                    /\ \E m \in inside : b.co2_min = <<m.co2_ppm>>
                    /\ \A m \in inside : b.co2_min[1] <= m.co2_ppm
                    /\ \E m \in inside : b.co2_max = <<m.co2_ppm>>
                    /\ \A m \in inside : b.co2_max[1] >= m.co2_ppm
                    /\ CountOf(res, b) = Cardinality(inside)
                    /\ 2 * Abs(b.co2_avg * Cardinality(inside) - 10 * SumCo2(inside))
                           <= Cardinality(inside)

\* the hour of three readings, 500, 600 and 552 ppm, has just been
\* aggregated: minimum 500, maximum 600, average 550.7 (1652 / 3), count 3
C7_Witness ==
    /\ last.op = "aggregate_hour" /\ last.ret = TRUE
    /\ \E b \in hourly_stats :
          /\ b.co2_min = <<500>> /\ b.co2_max = <<600>>
          /\ b.co2_avg = 5507 /\ b.co2_count = 3

(***************************************************************************)
(* C8  Retention floor: no step deletes a reading whose timestamp is less  *)
(* than one day old, whatever the arguments of the retention pass.         *)
(***************************************************************************)
C8_RetentionFloor ==
    [][\A m \in measurements :
          At(m) > now - timedelta(1, 0, 0) => m \in measurements']_vars

(***************************************************************************)
(* C9  Day/night completeness: the day sub-window and the night sub-window *)
(* of aggregate_day split the readings of a date (every reading is in one  *)
(* of the two and none in both), so the measurement_count of the DayBucket *)
(* that aggregate_day writes is the number of readings of the day          *)
(* sub-window plus the number of the night sub-window.                     *)
(***************************************************************************)
C9_DayNightComplete ==
    \A stat_date \in {date_of(At(m)) : m \in measurements} :
        LET in_window == where_window(measurements,
                             strftime(combine(stat_date)),
                             strftime(combine(stat_date) + timedelta(1, 0, 0)))
            day == where_day(in_window, DAYTIME_START, DAYTIME_END)
            night == where_night(in_window, DAYTIME_END, DAYTIME_START)
            r == aggregate_day(DB, stat_date)
        IN  /\ day \cup night = in_window
            /\ day \cap night = {}
            /\ r.ret = TRUE
            /\ \A b \in Bucket(r.db, <<"day", 1440>>, combine(stat_date)) :
                  b.measurement_count = Cardinality(day) + Cardinality(night)

\* aggregate_day has just written the row of a date with readings in the
\* day sub-window and a reading at 22:00:00, the first hour of the night
C9_Witness ==
    /\ last.op = "aggregate_day" /\ last.ret = TRUE
    /\ \E b \in daily_stats :
          /\ b.measurement_count = 3
          /\ b.co2_day_avg # NULL /\ b.co2_night_avg # NULL
    /\ \E m \in measurements : sql_hour(m.timestamp) = DAYTIME_END

(***************************************************************************)
(* C10 Key uniqueness: the minute store holds at most one row per          *)
(* (interval_start, interval_minutes), the hour store at most one row per  *)
(* hour_start, the day store at most one row per date.                     *)
(***************************************************************************)
C10_KeyUnique ==
    /\ \A a, b \in minute_stats :
          a.interval_start = b.interval_start
              /\ a.interval_minutes = b.interval_minutes => a = b
    /\ \A a, b \in hourly_stats : a.hour_start = b.hour_start => a = b
    /\ \A a, b \in daily_stats : a.date = b.date => a = b

\* an incremental pass has rewritten the rows of an hour and of a date that
\* a backfill or an earlier pass had written over fewer readings
C10_Witness ==
    /\ last.op = "run_incremental"
    /\ \E b \in hourly_stats : b.co2_count >= 2
    /\ \E b \in daily_stats : b.measurement_count >= 3
    /\ Cardinality(minute_stats) >= 4

(***************************************************************************)
(* C11 Partition: at every resolution the windows that backfill_all and    *)
(* run_incremental aggregate start on one grid, the multiples of the width *)
(* counted from midnight, and are half-open: the keys of all stored rows   *)
(* lie on the grid, the two windows of an incremental pass are adjacent    *)
(* and the later one holds the current time, and every reading lies in     *)
(* exactly one of the windows that a backfill aggregates.                  *)
(***************************************************************************)
\* the windows with readings that the loops of backfill_all call
BackfillWindows(db, res) ==
    IF db.measurements = {} THEN {}
    ELSE LET start == fromisoformat(min_timestamp(db.measurements)[1])
             end == fromisoformat(max_timestamp(db.measurements)[1])
         IN  CASE res[1] = "minute" ->
                     Visited(db.measurements, replace_minute(start, res[2]),
                             end, timedelta(0, 0, res[2]))
               [] res[1] = "hour" ->
                     Visited(db.measurements, replace_hour(start), end,
                             timedelta(0, 1, 0))
               [] res[1] = "day" ->
                     Visited(db.measurements, combine(date_of(start)),
                             combine(date_of(end)), timedelta(1, 0, 0))

\* the windows that run_incremental calls: <<current, previous>>
IncrementalWindows(t, res) ==
    CASE res[1] = "minute" ->
            <<replace_minute(t, res[2]),
              replace_minute(t, res[2]) - timedelta(0, 0, res[2])>>
      [] res[1] = "hour" ->
            <<replace_hour(t), replace_hour(t) - timedelta(0, 1, 0)>>
      [] res[1] = "day" ->
            <<combine(date_of(t)), combine(date_of(t) - 1)>>

\* the starts of the windows of the stored rows of a resolution
StoredStarts(db, res) ==
    CASE res[1] = "minute" ->
            {fromisoformat(b.interval_start) :
                b \in {x \in db.minute_stats : x.interval_minutes = res[2]}}
      [] res[1] = "hour" ->
            {fromisoformat(b.hour_start) : b \in db.hourly_stats}
      [] res[1] = "day" -> {combine(b.date[1]) : b \in db.daily_stats}

OnGrid(w, res) == w % Width(res) = 0

C11_Partition ==
    \A res \in Resolutions :
        LET inc == IncrementalWindows(localnow, res)
            back == BackfillWindows(DB, res)
        IN  /\ OnGrid(inc[1], res) /\ OnGrid(inc[2], res)
            /\ inc[2] + Width(res) = inc[1]
            /\ inc[1] <= localnow /\ localnow < inc[1] + Width(res)
            /\ \A w \in back : OnGrid(w, res)
            /\ \A m \in measurements :
                  Cardinality({w \in back : w <= At(m) /\ At(m) < w + Width(res)}) = 1
            /\ \A w \in StoredStarts(DB, res) : OnGrid(w, res)
            /\ \A w \in StoredStarts(backfill_all(DB), res)
                        \cup StoredStarts(run_incremental(DB, localnow), res) :
                  OnGrid(w, res)

\* a backfill has aggregated two readings one second apart that lie on the
\* two sides of the boundary of an hour (and of every minute interval)
C11_Witness ==
    /\ last.op = "backfill_all"
    /\ \E m, o \in measurements : At(m) % 3600 = 0 /\ At(o) = At(m) - 1
    /\ Cardinality(hourly_stats) >= 2
    /\ Cardinality(minute_stats) >= 6

(***************************************************************************)
(* C12 Backfill is re-runnable: a second backfill_all over the same raw    *)
(* readings leaves the minute, hour and day stores as the first left them, *)
(* whatever the stores held before the first and however much later the    *)
(* second runs.                                                            *)
(***************************************************************************)
C12_BackfillRerunnable ==
    /\ LET first == backfill_all(DB)
           second == backfill_all(first)
       IN  AggregateStores(second) = AggregateStores(first)
    /\ last.op = "backfill_all" =>
           AggregateStores(backfill_all(DB)) = AggregateStores(DB)

\* a backfill has completed over readings of two hours, time has passed
\* since the newest reading, and the stores hold rows of all resolutions
C12_Witness ==
    /\ last.op = "backfill_all"
    /\ Cardinality(hourly_stats) >= 2
    /\ minute_stats # {} /\ daily_stats # {}
    /\ \A m \in measurements : At(m) < now
    /\ backfill_all(DB) = DB

(***************************************************************************)
(* C13 Incremental scope: at each resolution an incremental pass leaves    *)
(* every row but those of the window that holds the current time and of    *)
(* the window before it as it was; of these two windows, the one that      *)
(* holds a reading has after the pass the row that the aggregation call on *)
(* it writes, the one that holds none keeps what it had.                   *)
(***************************************************************************)
RowsOf(db, res) ==
    CASE res[1] = "minute" ->
            {b \in db.minute_stats : b.interval_minutes = res[2]}
      [] res[1] = "hour" -> db.hourly_stats
      [] res[1] = "day" -> db.daily_stats

StartOf(res, b) ==
    CASE res[1] = "minute" -> fromisoformat(b.interval_start)
      [] res[1] = "hour" -> fromisoformat(b.hour_start)
      [] res[1] = "day" -> combine(b.date[1])

C13_IncrementalScope ==
    LET r == run_incremental(DB, localnow)
    IN  \A res \in Resolutions :
            LET inc == IncrementalWindows(localnow, res)
                scope == {inc[1], inc[2]}
            IN  /\ {b \in RowsOf(r, res) : StartOf(res, b) \notin scope}
                       = {b \in RowsOf(DB, res) : StartOf(res, b) \notin scope}
                /\ \A w \in scope :
                      Bucket(r, res, w) =
                          IF ReadingsIn(measurements, w, Width(res)) # {}
                          THEN Bucket(Aggregate(DB, res, w).db, res, w)
                          ELSE Bucket(DB, res, w)

\* a pass two days after the first readings has written the rows of the
\* current windows and left the rows of the first date, which hold fewer
\* readings than are stored for it, as they were
C13_Witness ==
    /\ last.op = "run_incremental"
    /\ now = ClockSamples[Len(ClockSamples)]
    /\ Bucket(DB, <<"day", 1440>>, combine(date_of(localnow))) # {}
    /\ Bucket(DB, <<"hour", 60>>, replace_hour(localnow)) # {}
    /\ \E b \in daily_stats :
          /\ b.date[1] = date_of(localnow) - 2
          /\ b.measurement_count <
                 Cardinality(ReadingsIn(measurements, combine(b.date[1]), 86400))

(***************************************************************************)
(* C14 The value a retention pass returns is the number of raw readings it *)
(* deleted, the first deletion and those of the loop together: the number  *)
(* of readings stored before the pass minus the number stored after it.    *)
(***************************************************************************)
\* the pass is also run a day after the current time, when the first
\* deletion and the loop both find readings to delete
RetentionDelays == {0, timedelta(1, 0, 0)}

C14_RetentionReturn ==
    \A days_to_keep \in RetentionDays, max_size_gb \in RetentionSizes,
       later \in RetentionDelays :
        LET r == cleanup_old_raw_data(DB, days_to_keep, max_size_gb,
                                      localnow + later)
        IN  /\ r.db.measurements \subseteq measurements
            /\ r.ret = Cardinality(measurements)
                           - Cardinality(r.db.measurements)

\* a pass has deleted readings in its loop, with the threshold at 2 days: a
\* reading older than 1 day, which no first deletion that deletes leaves
\* behind, is still stored
C14_Witness ==
    /\ last.op = "cleanup_old_raw_data" /\ last.ret >= 1
    /\ \E m \in measurements : At(m) < now - timedelta(1, 0, 0)

(***************************************************************************)
(* C15 Retention early stop: when the size of the file after the first     *)
(* deletion is within the maximum, the pass ends there: its result is the  *)
(* result of the first deletion, and every reading that is not older than  *)
(* days_to_keep days is still stored.                                      *)
(***************************************************************************)
C15_EarlyStop ==
    \A days_to_keep \in RetentionDays, max_size_gb \in RetentionSizes,
       later \in RetentionDelays :
        LET d == delete_older_than(DB, days_to_keep, localnow + later)
            r == cleanup_if_size_exceeded(DB, max_size_gb, days_to_keep,
                                          localnow + later)
        IN  get_database_size_mb(d.db) <= max_size_gb * 1024 =>
                /\ r.ret = d.ret
                /\ r.db = d.db
                /\ \A m \in measurements :
                      At(m) >= localnow + later - timedelta(days_to_keep, 0, 0)
                          => m \in r.db.measurements

\* a pass has ended after its first deletion: a reading older than 2 days,
\* which the loop deletes whenever it runs, is still stored, in a file
\* within the default maximum
C15_Witness ==
    /\ last.op = "cleanup_old_raw_data" /\ last.ret = 0
    /\ \E m \in measurements : At(m) < now - timedelta(2, 0, 0)
    /\ get_database_size_mb(DB) <= DEFAULT_MAX_SIZE_GB * 1024

(***************************************************************************)
(* C16 Driver liveness under failure: in daemon mode no storage failure,   *)
(* in whichever step it is raised (the initial backfill, a call of an      *)
(* incremental pass, the retention pass), ends the daemon: the daemon is   *)
(* never left by an exception.                                             *)
(***************************************************************************)
C16_DriverLiveness == daemon.pc # "crashed"

(***************************************************************************)
(* C17 Cancellation safety: a stop request does not interrupt the call in  *)
(* progress.  The daemon stops only at the head of its loop, with the flag *)
(* cleared; a call whose SELECTs have returned holds all the readings the  *)
(* window had at its first SELECT and, unless a failure abandons it,       *)
(* writes the row computed from what it has read, flag cleared or not; and *)
(* the aggregate stores change in no other step than such a write or the   *)
(* backfill.                                                               *)
(***************************************************************************)
CallOf(d) == incremental_calls(d.now)[d.i]
ResOf(c) ==
    CASE c.op = "aggregate_minute_interval" -> <<"minute", c.minutes>>
      [] c.op = "aggregate_hour" -> <<"hour", 60>>
      [] c.op = "aggregate_day" -> <<"day", 1440>>

C17_CancellationSafe ==
    [][/\ daemon'.pc = "stopped" /\ daemon.pc # "stopped"
              => daemon.pc = "loop" /\ ~daemon.running
       /\ daemon.pc = "insert" =>
              LET c == CallOf(daemon)
                  window == ReadingsIn(measurements, c.start, Width(ResOf(c)))
                  reads == daemon.fetched
                  written ==
                      IF c.op = "aggregate_day"
                      THEN aggregate_day_reads(DB, date_of(c.start),
                                               reads[1], reads[2], reads[3])
                      ELSE aggregate_call(WithRows(DB, reads[1]), c)
              IN  /\ reads[1] # {}
                  /\ \E k \in 1..MaxReadings :
                        reads[1] = {m \in window : m.id <= k}
                  /\ daemon'.pc \notin {"insert", "sleep"} =>
                        Bucket(DB', ResOf(c), c.start) =
                            Bucket(written.db, ResOf(c), c.start)
       /\ AggregateStores(DB') # AggregateStores(DB)
              => daemon.pc \in {"insert", "backfill"}]_vars

\* the flag has been cleared during an incremental pass, and the daemon
\* stands between the SELECT of a call, which has read two readings, and
\* its INSERT OR REPLACE
C17_Witness ==
    /\ ~daemon.running
    /\ daemon.pc = "insert"
    /\ Cardinality(daemon.fetched[1]) = 2

(***************************************************************************)
(* C18 Calendar tags: every stored hour row has hour_of_day the hour and   *)
(* day_of_week the weekday (Monday 0 .. Sunday 6) of its hour_start,       *)
(* is_daytime exactly when DAYTIME_START <= hour_of_day < DAYTIME_END, and *)
(* is_workday exactly when the day is Monday to Friday and WORKDAY_START   *)
(* <= hour_of_day < WORKDAY_END; every stored day row has is_weekend       *)
(* exactly when its date is a Saturday or a Sunday.  The same holds of the *)
(* row that insert_hourly_stats and insert_daily_stats write for any hour  *)
(* of any day of the week.                                                 *)
(***************************************************************************)
\* the weekday of a date, counted from Monday 2025-12-29 (day 20451)
DayOfWeek(d) == CHOOSE k \in 0..6 : (d - 20451 - k) % 7 = 0

HourTagsOK(b) ==
    LET d == b.hour_start[1]
        h == b.hour_start[2]
    IN  /\ b.hour_of_day = h
        /\ b.day_of_week = DayOfWeek(d)
        /\ b.is_daytime <=> (DAYTIME_START <= h /\ h < DAYTIME_END)
        /\ b.is_workday <=> /\ DayOfWeek(d) \in 0..4
                            /\ WORKDAY_START <= h /\ h < WORKDAY_END

DayTagsOK(b) == b.is_weekend <=> DayOfWeek(b.date[1]) \in {5, 6}

\* the hours around the limits of the day and of the working day
TagHours == {0, DAYTIME_START - 1, DAYTIME_START, WORKDAY_START - 1,
             WORKDAY_START, WORKDAY_END - 1, WORKDAY_END, DAYTIME_END - 1,
             DAYTIME_END, 23}

C18_CalendarTags ==
    /\ \A b \in hourly_stats : HourTagsOK(b)
    /\ \A b \in daily_stats : DayTagsOK(b)
    /\ \A d \in 20450..20456 :
          /\ \A b \in Bucket(insert_daily_stats(DB, d, <<1>>, <<1>>, 10, NULL,
                                 NULL, NULL, NULL, NULL, 1),
                             <<"day", 1440>>, combine(d)) : DayTagsOK(b)
          /\ \A h \in TagHours :
                \A b \in Bucket(insert_hourly_stats(DB, timedelta(d, h, 0),
                                    <<1>>, <<1>>, 10, 1, NULL, NULL, NULL),
                                <<"hour", 60>>, timedelta(d, h, 0)) :
                    HourTagsOK(b)

\* the stores hold the row of a working hour (Tuesday 14:00), of a daytime
\* hour of a Sunday, of a night hour, of a weekend date and of a weekday
C18_Witness ==
    /\ \E b \in hourly_stats : b.is_workday /\ b.is_daytime
    /\ \E b \in hourly_stats : ~b.is_workday /\ b.is_daytime
    /\ \E b \in hourly_stats : ~b.is_daytime
    /\ \E b \in daily_stats : b.is_weekend
    /\ \E b \in daily_stats : ~b.is_weekend

(***************************************************************************)
(* C19 RetentionFloorReached: a retention pass that ends with readings     *)
(* kept and the file still larger than the maximum surfaces something (a   *)
(* returned value, a printed line) that a pass with the same days_to_keep  *)
(* on the same database which ends within its maximum does not.            *)
(***************************************************************************)
Surfaced(r) == <<r.ret, r.printed>>
EndsOverBudget(r, max_size_gb) ==
    get_database_size_mb(r.db) > max_size_gb * 1024

C19_FloorWarning ==
    \A days_to_keep \in RetentionDays, over, within \in RetentionSizes :
        LET o == cleanup_old_raw_data(DB, days_to_keep, over, localnow)
            w == cleanup_old_raw_data(DB, days_to_keep, within, localnow)
        IN  /\ o.db.measurements # {}
            /\ EndsOverBudget(o, over)
            /\ ~EndsOverBudget(w, within)
            => Surfaced(o) # Surfaced(w)

(***************************************************************************)
(* C20 Raw readings are immutable to aggregation: no aggregation call, no  *)
(* backfill and no incremental pass changes the measurements table or its  *)
(* id counter.  A step that changes the table is an insert, which adds one *)
(* row under a new id, or a retention pass, which removes rows; a row that *)
(* stays keeps its timestamp, co2_ppm and temperature_celsius.             *)
(***************************************************************************)
RawOf(db) == <<db.measurements, db.sqlite_sequence>>

C20_RawImmutable ==
    /\ [](/\ \A res \in Resolutions : \A start \in WindowStarts(res) :
                RawOf(Aggregate(DB, res, start).db) = RawOf(DB)
          /\ RawOf(backfill_all(DB)) = RawOf(DB)
          /\ RawOf(run_incremental(DB, localnow)) = RawOf(DB))
    /\ [][/\ measurements' # measurements
                 => last'.op \in {"insert", "cleanup_old_raw_data"}
          /\ \A m \in measurements \ measurements' :
                 /\ last'.op = "cleanup_old_raw_data"
                 /\ \A n \in measurements' : n.id # m.id
          /\ \A n \in measurements' \ measurements :
                 /\ last'.op = "insert"
                 /\ n.id > sqlite_sequence.measurements
                 /\ measurements' = measurements \cup {n}]_vars

\* an incremental pass has run over three stored readings, after a backfill
\* or an earlier pass had filled the three stores
C20_Witness ==
    /\ last.op = "run_incremental"
    /\ Cardinality(measurements) = 3
    /\ minute_stats # {} /\ hourly_stats # {} /\ daily_stats # {}

(***************************************************************************)
(* C21 Progressive retention reaches the floor: a retention pass whose     *)
(* file stays larger than the maximum throughout deletes at every          *)
(* threshold from days_to_keep - 1 down to and including 1 day, so that    *)
(* when it ends no reading older than 1 day is left.                       *)
(***************************************************************************)
C21_ReachesFloor ==
    \A days_to_keep \in RetentionDays, max_size_gb \in RetentionSizes :
        LET r == cleanup_if_size_exceeded(DB, max_size_gb, days_to_keep,
                                          localnow)
        IN  days_to_keep >= 2 /\ EndsOverBudget(r, max_size_gb) =>
                \A m \in r.db.measurements :
                    At(m) >= localnow - timedelta(1, 0, 0)

(***************************************************************************)
(* C22 Retention terminates: for every days_to_keep (positive, zero or     *)
(* negative) and every maximum size, a retention pass returns after a      *)
(* bounded number of deletions, each at a threshold one day below the one  *)
(* before.  C22_AtMostDaysToKeep is the bound as stated, at most           *)
(* days_to_keep deletions; C22_Terminates is the bound that holds, at most *)
(* days_to_keep deletions and at most 1 when days_to_keep is below 1.      *)
(***************************************************************************)
C22_AtMostDaysToKeep ==
    \A days_to_keep \in RetentionDays, max_size_gb \in RetentionSizes :
        LET r == cleanup_if_size_exceeded(DB, max_size_gb, days_to_keep,
                                          localnow)
        IN  Len(r.passes) <= days_to_keep

C22_Terminates ==
    \A days_to_keep \in RetentionDays, max_size_gb \in RetentionSizes :
        LET r == cleanup_if_size_exceeded(DB, max_size_gb, days_to_keep,
                                          localnow)
        IN  /\ Len(r.passes) >= 1
            /\ Len(r.passes) <= IF days_to_keep < 1 THEN 1 ELSE days_to_keep
            /\ \A i \in 1..Len(r.passes) : r.passes[i] = days_to_keep + 1 - i
            /\ r.ret \in Nat

\* the file stays larger than the maximum throughout a pass that deletes at
\* several thresholds and finds readings to delete, and throughout a pass
\* with days_to_keep 0, which deletes once
C22_Witness ==
    LET r == cleanup_if_size_exceeded(DB, 0, 3, localnow)
        z == cleanup_if_size_exceeded(DB, 0, 0, localnow)
    IN  /\ Len(r.passes) >= 2 /\ r.ret >= 1 /\ r.db.measurements # {}
        /\ EndsOverBudget(r, 0)
        /\ Len(z.passes) = 1 /\ z.ret >= 1 /\ EndsOverBudget(z, 0)

(***************************************************************************)
(* C23 Snapshot consistency of one aggregation step: the row that a call   *)
(* of the daemon writes is the rollup of the readings of its window as     *)
(* they stood at one instant, that is of the readings of the window stored *)
(* up to some id, the reader inserting meanwhile or not; the count, the    *)
(* average, the day average and the night average of a day row are         *)
(* computed over the same readings.                                        *)
(***************************************************************************)
C23_SnapshotConsistency ==
    [][daemon.pc = "insert" /\ daemon'.pc \notin {"insert", "sleep"} =>
           LET c == CallOf(daemon)
               window == ReadingsIn(measurements, c.start, Width(ResOf(c)))
           IN  \E k \in 1..MaxReadings :
                   Bucket(DB', ResOf(c), c.start) =
                       Bucket(aggregate_call(
                                  WithRows(DB, {m \in window : m.id <= k}),
                                  c).db,
                              ResOf(c), c.start)]_vars

(***************************************************************************)
(* C24 Concurrent writers of one bucket key: when the daemon and the API   *)
(* server aggregate the same windows while the reader inserts, the         *)
(* read-then-write steps on a key are serialized: a rollup computed from   *)
(* older raw data never overwrites one computed from newer raw data.  No   *)
(* reading is deleted meanwhile, so no write lowers the count of a stored  *)
(* row, and when both have finished their pass no row counts fewer         *)
(* readings than the later of their reads of its window found.             *)
(***************************************************************************)
C24_WritersSerialized ==
    [][\A res \in Resolutions : \A start \in WindowStarts(res) :
          \A b \in Bucket(DB, res, start) :
              \E a \in Bucket(DB', res, start) :
                  CountOf(res, a) >= CountOf(res, b)]_vars

(***************************************************************************)
(* C25 Driver ordering: in daemon mode the backfill runs exactly once, and *)
(* it has completed when the first incremental pass starts; a pass starts  *)
(* at the head of the loop only; the retention check of a tick is reached  *)
(* from the last call of the tick's incremental pass only; and the stores  *)
(* change in steps of the backfill and of the INSERT OR REPLACE of a call  *)
(* only, readings are deleted in the retention step only: the passes never *)
(* overlap.                                                                *)
(***************************************************************************)
PassSteps == {"select", "select_day", "select_night", "insert"}

C25_DriverOrdering ==
    [][/\ daemon'.pc = "idle" => daemon.pc = "idle"
       /\ daemon'.pc = "backfill" => daemon.pc \in {"idle", "backfill"}
       /\ daemon.pc = "backfill" => daemon'.pc \in {"backfill", "loop", "crashed"}
       /\ daemon'.pc \in PassSteps /\ daemon.pc \notin PassSteps
              => daemon.pc = "loop"
       /\ daemon'.pc = "cleanup" /\ daemon.pc # "cleanup"
              => /\ daemon.pc \in {"select", "insert"}
                 /\ daemon.i = Len(incremental_calls(daemon.now))
       /\ AggregateStores(DB') # AggregateStores(DB)
              => daemon.pc \in {"backfill", "insert"}
       /\ ~(measurements \subseteq measurements') => daemon.pc = "cleanup"]_vars

\* the daemon sleeps after a tick whose incremental pass was followed by a
\* retention pass that deleted readings, the stores built
C25_Witness ==
    /\ daemon.pc = "sleep"
    /\ Cardinality(measurements) < sqlite_sequence.measurements
    /\ hourly_stats # {} /\ daily_stats # {}

(***************************************************************************)
(* C26 Every driver loop of incremental passes performs a backfill before  *)
(* its first incremental pass, so that the buckets of windows older than   *)
(* the previous one get built.  For the thread aggregation_loop of the API *)
(* server: when one of its incremental passes runs, every reading that was *)
(* stored before the thread was started has its row at every resolution.   *)
(* (The daemon's backfill before its first pass is part of C25.)           *)
(***************************************************************************)
C26_DriversBackfill ==
    server.pc \in PassSteps =>
        \A m \in measurements : \A res \in Resolutions :
            At(m) < server.since =>
                Bucket(DB, res, AlignedStart(At(m), Width(res))) # {}

(***************************************************************************)
(* C27 Retention rate limit: in daemon mode with an interval of at most 60 *)
(* minutes, a retention pass runs in at most one tick per clock hour,      *)
(* whatever the time the ticks take: a retention pass that follows another *)
(* runs in another clock hour.                                             *)
(***************************************************************************)
ClockHour(t) == <<date_of(t), hour_of(t)>>

C27_RetentionRateLimit ==
    [][/\ daemon.pc = "cleanup"
       /\ daemon.cleaned_at # 0
       /\ daemon'.cleaned_at # daemon.cleaned_at
       => ClockHour(daemon'.cleaned_at) # ClockHour(daemon.cleaned_at)]_vars

\* a tick has run a retention pass, and a later tick has made its check in
\* the same clock hour and run none
C27_Witness ==
    /\ daemon.pc = "sleep"
    /\ daemon.cleaned_at # 0
    /\ daemon.slept_from + tz > daemon.cleaned_at
    /\ ClockHour(daemon.slept_from + tz) = ClockHour(daemon.cleaned_at)

(***************************************************************************)
(* C28 Failure isolation within a tick: a failure of an aggregation call   *)
(* of an incremental pass abandons that call only.  The calls that remain  *)
(* are still made and the tick's retention check is still reached: the     *)
(* pass is left from its last call only, and for the retention check.      *)
(***************************************************************************)
C28_FailureIsolation ==
    [][daemon.pc \in PassSteps /\ daemon'.pc \notin PassSteps
           => /\ daemon'.pc = "cleanup"
              /\ daemon.i = Len(incremental_calls(daemon.now))]_vars

(***************************************************************************)
(* C29 Temperature average presence: at every resolution, when at least    *)
(* one reading of the window has a temperature, the temp_avg of the row    *)
(* that the aggregation call writes is the average of these temperatures   *)
(* rounded to one decimal, an average of exactly 0 included; temp_avg is   *)
(* null only when no reading of the window has a temperature, and the      *)
(* co2_day_avg and co2_night_avg of a day row are null only when the day   *)
(* or night sub-window holds no reading.                                   *)
(***************************************************************************)
WithTemperature(rows) == {m \in rows : m.temperature_celsius # NULL}

C29_TempAvgPresence ==
    \A res \in Resolutions : \A start \in WindowStarts(res) :
        LET inside == ReadingsIn(measurements, start, Width(res))
            temps == WithTemperature(inside)
            sum == SumCol(temperature_col(temps))
            r == Aggregate(DB, res, start)
        IN  \A b \in Bucket(r.db, res, start) :
                /\ temps = {} => b.temp_avg = NULL
                /\ temps # {} =>
                      /\ b.temp_avg # NULL
                      /\ 2 * Abs(b.temp_avg[1] * Cardinality(temps) - 10 * sum)
                             <= Cardinality(temps)
                /\ res[1] = "day" =>
                      /\ b.co2_day_avg = NULL <=>
                             where_day(inside, DAYTIME_START, DAYTIME_END) = {}
                      /\ b.co2_night_avg = NULL <=>
                             where_night(inside, DAYTIME_END, DAYTIME_START) = {}

(***************************************************************************)
(* C30 Pattern summaries: for each group of hour rows (by hour_of_day, by  *)
(* day_of_week, by is_daytime, by is_workday) the reported co2_avg is the  *)
(* unweighted mean of the co2_avg of the rows of the group, each row       *)
(* weighing the same whatever its co2_count, as the query reports it, that *)
(* is rounded to one decimal; sample_count is the sum of their co2_count;  *)
(* and the day group and the night group together hold every hour row      *)
(* once.                                                                   *)
(***************************************************************************)
RECURSIVE TotalOf(_, _)
TotalOf(rows, field) ==
    IF rows = {} THEN 0
    ELSE LET b == CHOOSE x \in rows : TRUE
         IN  b[field] + TotalOf(rows \ {b}, field)

\* e reports the group: its count is the sum of the counts, its co2_avg is
\* the tenth nearest to the mean of the rows' co2_avg (none for no row)
Summarizes(e, group) ==
    /\ e.sample_count = TotalOf(group, "co2_count")
    /\ group = {} => e.co2_avg = NULL
    /\ group # {} =>
          /\ e.co2_avg # NULL
          /\ 2 * Abs(e.co2_avg[1] * Cardinality(group)
                         - TotalOf(group, "co2_avg")) <= Cardinality(group)

C30_PatternSummaries ==
    LET hourly == get_hourly_pattern(DB)
        weekly == get_weekly_pattern(DB)
        dn == get_day_night_comparison(DB)
        ww == get_workday_weekend_comparison(DB)
    IN  /\ \A h \in 0..23 :
              LET group == {b \in hourly_stats : b.hour_start[2] = h}
                  es == {e \in hourly : e.hour = h}
              IN  /\ Cardinality(es) = IF group = {} THEN 0 ELSE 1
                  /\ \A e \in es : Summarizes(e, group)
        /\ \A d \in 0..6 :
              LET group == {b \in hourly_stats : DayOfWeek(b.hour_start[1]) = d}
                  es == {e \in weekly : e.day_num = d}
              IN  /\ Cardinality(es) = IF group = {} THEN 0 ELSE 1
                  /\ \A e \in es : Summarizes(e, group)
        /\ Summarizes(dn.day, {b \in hourly_stats : b.is_daytime})
        /\ Summarizes(dn.night, {b \in hourly_stats : ~b.is_daytime})
        /\ Summarizes(ww.workday, {b \in hourly_stats : b.is_workday})
        /\ dn.day.sample_count + dn.night.sample_count
               = TotalOf(hourly_stats, "co2_count")

\* the rows of two hours of one day of the week are stored, a daytime hour
\* computed from two readings (550.0) and a night hour computed from one
\* (552.0): the mean of the two rows is 551.0, the mean of the three
\* readings 550.7
C30_Witness ==
    /\ \E a, n \in hourly_stats :
          /\ a.is_daytime /\ ~n.is_daytime
          /\ a.day_of_week = n.day_of_week
          /\ a.co2_count = 2 /\ a.co2_avg = 5500
          /\ n.co2_count = 1 /\ n.co2_avg = 5520
    /\ \E e \in get_weekly_pattern(DB) :
          e.co2_avg = <<5510>> /\ e.sample_count = 3
    /\ get_day_night_comparison(DB).night.sample_count = 1

(***************************************************************************)
(* The alarm notifications (notifications.py)                              *)
(***************************************************************************)

\* the values passed as cooldown_minutes; 30 is the default of AlarmSettings
DEFAULT_COOLDOWN == 30

CooldownArgs == {0, 1, DEFAULT_COOLDOWN}

\* a cooldown whose last minute still counts as elapsed
should_notify_inclusive(last_notification, t, cooldown_minutes) == last_notification = NULL \/ t - last_notification[1] >= timedelta(0, 0, cooldown_minutes)

\* NotificationManager.should_notify, t is datetime.now()
should_notify(last_notification, t, cooldown_minutes) == last_notification = NULL \/ t - last_notification[1] > timedelta(0, 0, cooldown_minutes)

\* NotificationManager.mark_notified, t is datetime.now()
mark_notified(n, t) == [n EXCEPT !.last_notification = <<t>>]

\* a manager that records every attempt, sent or not
send_failed_marking(n, t) == [mark_notified(n, t) EXCEPT !.pc = "idle", !.ret = <<FALSE>>]

\* send_co2_alarm after send_notification returned False: nothing is recorded
send_failed(n, t) == [n EXCEPT !.pc = "idle", !.ret = <<FALSE>>]

\* send_co2_alarm is called: the cooldown is checked against the clock, and
\* the call returns False at once while it has not elapsed
SendCo2Alarm ==
    /\ notifier.pc = "idle"
    /\ \E cooldown_minutes \in CooldownArgs :
         IF should_notify(notifier.last_notification, localnow, cooldown_minutes)
         THEN notifier' = [notifier EXCEPT !.pc = "send_notification", !.cooldown_minutes = cooldown_minutes]
         ELSE notifier' = [notifier EXCEPT !.ret = <<FALSE>>, !.cooldown_minutes = cooldown_minutes]
    /\ UNCHANGED <<measurements, minute_stats, hourly_stats, daily_stats,
                   sqlite_sequence, file_size, now, tz, last, daemon, server,
                   tracker>>

\* send_notification hands the message to the desktop and returns True
SendNotification ==
    /\ notifier.pc = "send_notification"
    /\ notifier' = [notifier EXCEPT !.pc = "mark_notified", !.sent_at = <<localnow>>]
    /\ UNCHANGED <<measurements, minute_stats, hourly_stats, daily_stats,
                   sqlite_sequence, file_size, now, tz, last, daemon, server,
                   tracker>>

\* send_notification returns False: the platform is not supported or the
\* command raised
SendNotificationFails ==
    /\ notifier.pc = "send_notification"
    /\ notifier' = send_failed(notifier, localnow)
    /\ UNCHANGED <<measurements, minute_stats, hourly_stats, daily_stats,
                   sqlite_sequence, file_size, now, tz, last, daemon, server,
                   tracker>>

\* if success: self.mark_notified(); return success
MarkNotified ==
    /\ notifier.pc = "mark_notified"
    /\ notifier' = [mark_notified(notifier, localnow) EXCEPT !.pc = "idle", !.ret = <<TRUE>>]
    /\ UNCHANGED <<measurements, minute_stats, hourly_stats, daily_stats,
                   sqlite_sequence, file_size, now, tz, last, daemon, server,
                   tracker>>

NextAlarm ==
    \/ TickMinute
    \/ SendCo2Alarm
    \/ SendNotification
    \/ SendNotificationFails
    \/ MarkNotified

SpecAlarm == Init /\ [][NextAlarm]_vars

\* C31: an alarm is sent only when more than the call's cooldown_minutes have
\* passed since the latest alarm that was sent, and a send attempt that fails
\* leaves the time the cooldown is counted from as it was
C31_AlarmCooldown ==
    [][/\ (notifier.pc = "send_notification" /\ notifier'.pc = "mark_notified" /\ notifier.sent_at # NULL)
            => notifier'.sent_at[1] - notifier.sent_at[1] > timedelta(0, 0, notifier.cooldown_minutes)
       /\ (notifier.pc = "send_notification" /\ notifier'.pc = "idle")
            => /\ notifier'.ret = <<FALSE>>
               /\ notifier'.last_notification = notifier.last_notification
               /\ \A c \in CooldownArgs : should_notify(notifier'.last_notification, localnow, c) = should_notify(notifier.last_notification, localnow, c)]_vars

\* a second alarm has gone out under the default cooldown, after a call in
\* between had returned False
C31_Witness ==
    /\ notifier.pc = "mark_notified"
    /\ notifier.cooldown_minutes = DEFAULT_COOLDOWN
    /\ notifier.last_notification # NULL
    /\ notifier.ret = <<FALSE>>
    /\ notifier.sent_at[1] - notifier.last_notification[1] > timedelta(0, 0, DEFAULT_COOLDOWN)

(***************************************************************************)
(* Stopping the daemon                                                     *)
(***************************************************************************)

\* a stop request has been received and run_daemon has not returned yet
StopRequested == daemon.pc \notin {"idle", "stopped", "crashed"} /\ ~daemon.running

\* the step starts an incremental pass
StartsIncremental == daemon.pc = "loop" /\ daemon'.pc = "select"

\* the step runs the retention pass of a tick
StartsRetention == daemon.pc = "cleanup" /\ daemon'.cleaned_at # daemon.cleaned_at

\* C32: once a stop request has been received in daemon mode, no incremental
\* pass and no retention pass is started any more
C32_StopHonoured == [][StopRequested => ~StartsIncremental /\ ~StartsRetention]_vars

(***************************************************************************)
(* Hosts whose local time is not UTC                                       *)
(***************************************************************************)

\* offsets of datetime.now() from CURRENT_TIMESTAMP: New York, UTC, Berlin
HostOffsets == {0 - timedelta(0, 5, 0), 0, timedelta(0, 1, 0)}

\* the state after construction on a host of any of these zones
InitZones ==
    /\ measurements = {}
    /\ minute_stats = {}
    /\ hourly_stats = {}
    /\ daily_stats = {}
    /\ sqlite_sequence = [measurements |-> 0]
    /\ file_size = 1
    /\ now = ClockSamples[1]
    /\ tz \in HostOffsets
    /\ last = [op |-> "init", ret |-> NULL]
    /\ daemon = NotStarted
    /\ server = ServerNotStarted
    /\ notifier = NotificationManager
    /\ tracker = CO2Tracker

\* the reader and the incremental pass on such a host
NextZones ==
    \/ Tick
    \/ Insert
    \/ RunIncremental

SpecZones == InitZones /\ [][NextZones]_vars

\* the 5-minute bucket an incremental pass started at this instant takes as
\* the current one
CurrentBucket == AlignedStart(localnow, Width(<<"minute", 5>>))

\* C33: a reading stamped by insert() at the instant at which an incremental
\* pass starts lies in the pass's current 5-minute bucket or in the one before
\* it, and the pass stores the bucket of the reading with the count of its
\* window, whatever the offset of the host's local time
C33_ClockConsistency ==
    \A m \in measurements :
        m.timestamp = strftime(now)
        => LET w == Width(<<"minute", 5>>)
               start == AlignedStart(At(m), w)
               after == run_incremental(DB, localnow)
           IN  /\ start \in {CurrentBucket, CurrentBucket - w}
               /\ \E b \in Bucket(after, <<"minute", 5>>, start) :
                     b.co2_count = Cardinality(ReadingsIn(measurements, start, w))

(***************************************************************************)
(* The daemon's ticks beside a reader, minute by minute                    *)
(***************************************************************************)

MaxCoverageMinutes == 8   \* minutes the clock runs beside the reader

\* a minute passes, up to MaxCoverageMinutes minutes after the first sample;
\* the daemon is slow, but not more than this: from the start of a pass to
\* the start of the sleep that follows it at most one minute passes, and none
\* between the initial backfill and the first pass
TickCoverage ==
    /\ now < ClockSamples[1] + timedelta(0, 0, MaxCoverageMinutes)
    /\ \/ daemon.pc \in {"idle", "sleep"}
       \/ daemon.pc \in PassSteps /\ localnow = daemon.now
    /\ TickMinute

\* python aggregator.py --daemon with the default interval, beside a reader
\* that stamps its readings with the current time
NextCoverage ==
    \/ TickCoverage
    \/ ReaderInsert
    \/ RunDaemon
    \/ DaemonBackfill
    \/ DaemonLoop
    \/ DaemonSelect
    \/ DaemonSelectDay
    \/ DaemonSelectNight
    \/ DaemonInsert
    \/ DaemonCleanup
    \/ DaemonWake

SpecCoverage == Init /\ [][NextCoverage]_vars

\* the 5-minute windows that hold a reading and that the incremental pass
\* started at t, and so every later pass, leaves alone: they ended before
\* the window before the current one
LeftBehind(t) ==
    LET w == Width(<<"minute", 5>>)
    IN  {s \in {AlignedStart(At(m), w) : m \in measurements} : s + w < AlignedStart(t, w)}

\* C34: by the time an incremental pass of the daemon starts, every 5-minute
\* window that this pass and the later ones no longer reach has been
\* recomputed after it closed: its bucket holds the raw count of the window
C34_IncrementalCoverage ==
    (daemon.pc = "select" /\ daemon.i = 1 /\ daemon.interval = DEFAULT_INTERVAL)
    => \A s \in LeftBehind(daemon.now) :
          \E b \in Bucket(DB, <<"minute", 5>>, s) :
             b.co2_count = Cardinality(ReadingsIn(measurements, s, Width(<<"minute", 5>>)))

(***************************************************************************)
(* The resolutions against each other                                      *)
(***************************************************************************)

\* the hour rows of a day row's date
HoursOf(d) == {h \in hourly_stats : h.hour_start[1] = d.date[1]}

\* the 5-minute rows whose windows make up the window of a 15-minute row
FivesOf(b) ==
    {f \in minute_stats :
        /\ f.interval_minutes = 5
        /\ \E k \in 0..2 : f.interval_start = strftime(fromisoformat(b.interval_start) + k * Width(<<"minute", 5>>))}

\* C35: when a backfill has returned, the hour rows of every date add up to
\* the measurement_count of the date's day row and span its co2_min and
\* co2_max, and the three 5-minute rows under every 15-minute row add up to
\* its co2_count
C35_CrossResolution ==
    last.op = "backfill_all"
    => /\ \A d \in daily_stats :
             /\ TotalOf(HoursOf(d), "co2_count") = d.measurement_count
             /\ \A h \in HoursOf(d) : d.co2_min[1] <= h.co2_min[1] /\ h.co2_max[1] <= d.co2_max[1]
             /\ \E h \in HoursOf(d) : h.co2_min = d.co2_min
             /\ \E h \in HoursOf(d) : h.co2_max = d.co2_max
       /\ \A b \in minute_stats :
             b.interval_minutes = 15 => TotalOf(FivesOf(b), "co2_count") = b.co2_count

(***************************************************************************)
(* C36 The size check after the first deletion: a retention pass deletes   *)
(* readings younger than days_to_keep only when what the first deletion    *)
(* has left behind is itself larger than the maximum, i.e. when the file   *)
(* without the space the deletion has freed is.                            *)
(***************************************************************************)
C36_SizeAfterFirstDeletion ==
    \A days_to_keep \in RetentionDays, max_size_gb \in RetentionSizes,
       later \in RetentionDelays :
        LET t == localnow + later
            d == delete_older_than(DB, days_to_keep, t)
            r == cleanup_if_size_exceeded(DB, max_size_gb, days_to_keep, t)
        IN  r.db.measurements # d.db.measurements
            => get_database_size_mb(vacuum(d.db)) > max_size_gb * 1024

(***************************************************************************)
(* The daemon's ticks across the clock hours                               *)
(***************************************************************************)

\* a minute passes while the daemon is on time: the sleep is not overslept,
\* from the start of a pass to the start of the sleep that follows it at most
\* one minute passes, and none between the backfill and the first pass
TickOnTime ==
    /\ \/ daemon.pc = "idle"
       \/ daemon.pc = "sleep" /\ now < daemon.slept_from + sleep_seconds(daemon.interval)
       \/ daemon.pc \in PassSteps /\ localnow = daemon.now
    /\ TickMinute

\* python aggregator.py --daemon with the default interval, no pass failing
\* and no signal arriving
NextHours ==
    \/ TickOnTime
    \/ RunDaemon
    \/ DaemonBackfill
    \/ DaemonLoop
    \/ DaemonSelect
    \/ DaemonCleanup
    \/ DaemonWake

SpecHours == Init /\ [][NextHours]_vars

\* C37: every clock hour through which the daemon ticks has a tick that runs
\* the retention pass.  A tick runs it only in the first interval_minutes
\* minutes of the hour, so once these are over, the latest retention pass of
\* a daemon that has been ticking since an earlier hour lies in this hour
C37_RetentionEveryHour ==
    (/\ daemon.running
     /\ daemon.interval = DEFAULT_INTERVAL
     /\ daemon.cleaned_at # 0
     /\ minute_of(localnow) >= DEFAULT_INTERVAL)
    => ClockHour(daemon.cleaned_at) = ClockHour(localnow)

(***************************************************************************)
(* The tracker's read loop (tracker.py)                                    *)
(***************************************************************************)

MaxAttempts == 7      \* iterations of the read loop in one behaviour

\* max_errors = 5
max_errors == 5

\* what an iteration of the loop can come to: the reading is stored; the
\* reader returns a Reading without co2_ppm; reader.read raises IOError;
\* anything in the try raises another exception (db.insert: sqlite3.Error)
Outcomes == {"stored", "no_reading", "IOError", "Exception"}

\* a loop that counts the failures and never starts over
count_after_never_reset(consecutive_errors, outcome) == IF outcome = "stored" THEN consecutive_errors ELSE consecutive_errors + 1

\* consecutive_errors when the try statement of an iteration is left
count_after(consecutive_errors, outcome) == IF outcome = "stored" THEN 0 ELSE consecutive_errors + 1

\* except IOError: if consecutive_errors < max_errors, disconnect and connect
reconnects(consecutive_errors, outcome) == outcome = "IOError" /\ consecutive_errors < max_errors

\* the tracker after an iteration that came to outcome: the count, the
\* reconnect, and the check for too many consecutive errors
run_loop(tr, outcome) ==
    LET n == count_after(tr.consecutive_errors, outcome)
    IN  [tr EXCEPT !.consecutive_errors = n,
                   !.attempts = Append(@, [outcome |-> outcome, reconnect |-> reconnects(n, outcome)]),
                   !.running = IF n >= max_errors THEN FALSE ELSE @,
                   !.pc = IF n >= max_errors THEN "stopped" ELSE @]

\* CO2Tracker.start: the device is found and connected, the loop is entered
TrackerStart ==
    /\ tracker.pc = "idle"
    /\ tracker' = [tracker EXCEPT !.pc = "loop", !.running = TRUE]
    /\ UNCHANGED <<measurements, minute_stats, hourly_stats, daily_stats,
                   sqlite_sequence, file_size, now, tz, last, daemon, server,
                   notifier>>

\* an iteration that reads a value and stores it
TrackerStores ==
    /\ tracker.pc = "loop"
    /\ Len(tracker.attempts) < MaxAttempts
    /\ sqlite_sequence.measurements < MaxReadings
    /\ LET s == Reading(sqlite_sequence.measurements + 1)
       IN  SetDB(insert(DB, now, s[1], s[2]).db)
    /\ tracker' = run_loop(tracker, "stored")
    /\ UNCHANGED <<now, tz, last, daemon, server, notifier>>

\* an iteration that stores nothing
TrackerFails ==
    /\ tracker.pc = "loop"
    /\ Len(tracker.attempts) < MaxAttempts
    /\ \E outcome \in Outcomes \ {"stored"} : tracker' = run_loop(tracker, outcome)
    /\ UNCHANGED <<measurements, minute_stats, hourly_stats, daily_stats,
                   sqlite_sequence, file_size, now, tz, last, daemon, server,
                   notifier>>

\* SIGINT or SIGTERM: signal_handler calls tracker.stop() and sys.exit(0)
TrackerStop ==
    /\ tracker.pc = "loop"
    /\ tracker' = [tracker EXCEPT !.pc = "exited", !.running = FALSE]
    /\ UNCHANGED <<measurements, minute_stats, hourly_stats, daily_stats,
                   sqlite_sequence, file_size, now, tz, last, daemon, server,
                   notifier>>

NextTracker ==
    \/ TrackerStart
    \/ TrackerStores
    \/ TrackerFails
    \/ TrackerStop

SpecTracker == Init /\ [][NextTracker]_vars

\* the number of iterations at the end of s that stored nothing
RECURSIVE FailedRun(_)
FailedRun(s) ==
    IF s = <<>> \/ s[Len(s)].outcome = "stored" THEN 0
    ELSE 1 + FailedRun(SubSeq(s, 1, Len(s) - 1))

\* C38: the loop has stopped on its own exactly when the five latest
\* iterations have failed, whatever failed before a stored reading; while it
\* runs, the count is the number of failures since the latest stored reading;
\* and a reconnect was attempted only in an iteration that raised IOError and
\* was at most the fourth failure in a row
C38_ErrorBudget ==
    /\ tracker.pc = "stopped" <=> FailedRun(tracker.attempts) >= max_errors
    /\ tracker.pc = "stopped" => FailedRun(tracker.attempts) = max_errors
    /\ tracker.pc \in {"loop", "stopped"} => tracker.consecutive_errors = FailedRun(tracker.attempts)
    /\ \A i \in 1..Len(tracker.attempts) :
          tracker.attempts[i].reconnect
          => /\ tracker.attempts[i].outcome = "IOError"
             /\ FailedRun(SubSeq(tracker.attempts, 1, i)) < max_errors

\* the loop has stopped on its own although a reading had been stored
\* earlier, after failures of which one had led to a reconnect
C38_Witness ==
    /\ tracker.pc = "stopped"
    /\ \E i \in 2..Len(tracker.attempts) :
          /\ tracker.attempts[i].outcome = "stored"
          /\ \A j \in 1..(i - 1) : tracker.attempts[j].outcome # "stored"
          /\ \E j \in 1..(i - 1) : tracker.attempts[j].reconnect

====
